---- MODULE Spec2Model ----
(***************************************************************************)
(* TeslaPy session manager: token life cycle, cache persistence and        *)
(* request dispatch, in the three revisions of the repository.             *)
(*                                                                         *)
(*   revision 1  src/teslapy.py            password grant, refresh_token() *)
(*   revision 2  src/teslapy/teslapy.py    SSO login, re-login on expiry   *)
(*   revision 3  src/teslapy/__init__.py   OAuth2Session, pluggable cache  *)
(*                                                                         *)
(* Time is a counter (now).  The server hands out access tokens numbered   *)
(* 1, 2, ...; srv[n] is the time at which token n expires.  A Python dict  *)
(* is a function from keys to values, the empty dict is EmptyDict.         *)
(***************************************************************************)
EXTENDS Integers, Sequences, FiniteSets, TLC

\* Bounds of the model.
MaxTime == 2
MaxIssued == 1
ExpiresIn == 1

Ids == {"A", "B"}
Threads == {1, 2}
EmptyDict == [k \in {} |-> 0]

VARIABLES
    rev,      \* the revision of the library in use
    now,      \* time.time()
    srv,      \* server: srv[n] = expiry time of access token n
    cache,    \* cache.json: [state, doc]
    response, \* what the backend answers to a request() of the application
    ts,       \* revision 1: the Tesla session object shared by the threads
    pc,       \* where each thread (revision 1) or each session in a
              \* stepwise save (revision 3) is
    call,     \* revision 1: the top-level call each thread is executing
    nthr,     \* number of threads (revision 1) or session objects in use
    sess,     \* revisions 2 and 3: the Tesla session objects
    saved,    \* per identity: the session state of the last save of a token
    nonce,    \* number of PKCE code verifiers drawn so far
    stale,    \* tokens whose expiry-triggered renewal has failed
    exchanged,\* revision 3: the code verifiers each session has sent in
              \* its token exchanges
    held,     \* revision 3: the document the _token_updater() a session is
              \* running has loaded
    vehicle,  \* the Vehicle object the application holds
    product,  \* the Product object the application holds
    wake,     \* the sync_wake_up() call of the vehicle: its arguments, its
              \* local variables and how it ended
    ev        \* what the last step did (requests sent, cache accesses, error)

vars ==
    <<rev, now, srv, cache, response, ts, pc, call, nthr, sess, saved, nonce,
      stale, exchanged, held, vehicle, product, wake, ev>>

\* The objects built on a session.
objects == <<vehicle, product, wake>>

----------------------------------------------------------------------------
(* Environment: clock, server, cache file                                  *)

\* A token response of the server issued at time `at`.
Token(n, at) ==
    [access_token |-> n, refresh_token |-> n, created_at |-> at,
     expires_in |-> ExpiresIn]

\* The server's view: access token n is past its expiry.
ServerExpired(sv, n) == n # 0 /\ sv[n] < now

\* json.load of the cache file; IOError/ValueError yield {}.
cache_load(c) == IF c.state = "ok" THEN c.doc ELSE EmptyDict

\* The file parses to a JSON value that is not an object: a list or a number.
NotMapping == {"list", "number"}

\* isinstance(cache, dict) for what the loader returns.
IsMapping(c) == c.state \notin NotMapping

\* An entry of the document that is a JSON value other than an object.
Scalar == [scalar |-> TRUE]

IsRecord(entry) == "scalar" \notin DOMAIN entry

\* cache[email] = entry on the loaded document.
CachePut_only_own(doc, email, entry) == [i \in {email} |-> entry]

CachePut(doc, email, entry) ==
    [i \in (DOMAIN doc) \cup {email} |-> IF i = email THEN entry ELSE doc[i]]

\* json.dump of the document; an IOError on open leaves the file as it was
\* and is only logged.
cache_dump(c, doc, ioOk) == IF ioOk THEN [state |-> "ok", doc |-> doc] ELSE c

\* The cache files a run can start with: missing, or holding any subset of
\* entries for the two identities (tokens 1 and 2, issued at time 0).
InitDocs ==
    { [i \in D |-> Token(IF i = "A" THEN 1 ELSE 2, 0)] : D \in SUBSET Ids }

InitCaches ==
    {[state |-> "missing", doc |-> EmptyDict]}
        \cup {[state |-> "ok", doc |-> d] : d \in InitDocs}

\* Cache files that were not written by the library: unparsable content,
\* a JSON value that is not an object, an entry of identity A that is not
\* an object.
BadFiles ==
    {[state |-> st, doc |-> EmptyDict] : st \in {"garbled"} \cup NotMapping}
        \cup {[state |-> "ok", doc |-> [i \in {"A"} |-> Scalar]]}

\* Revisions 1 and 2: also an entry without created_at and expires_in.
BadCaches ==
    BadFiles \cup
    {[state |-> "ok",
      doc |-> [i \in {"A"} |-> [access_token |-> 1, refresh_token |-> 1]]]}

\* Text is a sequence of characters; a word that is never taken apart is
\* one character.
Strings == {<<>>, <<"a">>, <<"a", ".">>, <<".", "b">>}

\* JSON values: strings, numbers, null.
JsonValues ==
    {[type |-> "string", s |-> s, n |-> 0] : s \in Strings}
        \cup {[type |-> "number", s |-> <<>>, n |-> k] : k \in {0, 7}}
        \cup {[type |-> "null", s |-> <<>>, n |-> 0]}

\* The values of a JSON object in the order of its members.
MaxValues == 2

Objects == UNION {[1..n -> JsonValues] : n \in 0..MaxValues}

\* What command() reads of a JSON object: the member response (missing,
\* an empty object, or an object) and the members result, reason, code and
\* message of that object.
NoEnvelope ==
    [response |-> "missing", result |-> "missing", reason |-> "missing",
     code |-> "missing", message |-> "missing"]

VehicleEnvelopes ==
    {NoEnvelope, [NoEnvelope EXCEPT !.response = "empty"]}
        \cup {[NoEnvelope EXCEPT !.response = "present", !.result = r,
                                 !.reason = t] :
                r \in {"missing", "true", "false"},
                t \in {"missing", "already_set", "not_supported"}}

ProductEnvelopes ==
    {NoEnvelope, [NoEnvelope EXCEPT !.response = "empty"]}
        \cup {[NoEnvelope EXCEPT !.response = "present", !.code = c,
                                 !.message = t] :
                c \in {"missing", "201", "400"},
                t \in {"missing", "Updated", "Rejected"}}

\* A response body: not JSON, JSON that is not an object (an array, a
\* number, a string, null), or a JSON object, given by the values of its
\* members in order and by the members that command() reads.
Bodies ==
    {[json |-> j, values |-> <<>>, envelope |-> NoEnvelope] :
        j \in {"no", "other"}}
        \cup {[json |-> "object", values |-> o, envelope |-> NoEnvelope] :
                o \in Objects}

\* The reason phrase of the status line.
Phrase(status) ==
    CASE status = 200 -> <<"OK">>
      [] status = 401 -> <<"Unauthorized">>
      [] OTHER -> <<"Internal Server Error">>

Responses3 ==
    {[status |-> st, reason |-> Phrase(st), body |-> b] :
        st \in {200, 401, 500}, b \in Bodies}

NoResponse ==
    [status |-> 0, reason |-> <<>>,
     body |-> [json |-> "no", values |-> <<>>, envelope |-> NoEnvelope]]

\* The responses of the backend when only the status matters.
OkResponse ==
    [status |-> 200, reason |-> Phrase(200),
     body |-> [json |-> "object", values |-> <<>>, envelope |-> NoEnvelope]]

ErrorResponse ==
    [status |-> 401, reason |-> Phrase(401),
     body |-> [json |-> "object", values |-> <<>>, envelope |-> NoEnvelope]]

\* bool(v) of Python.
Truthy_strings_only(v) == v.type = "string" /\ v.s # <<>>

Truthy(v) ==
    CASE v.type = "string" -> v.s # <<>>
      [] v.type = "number" -> v.n # 0
      [] OTHER -> FALSE

\* str(v) of Python.
Str(v) ==
    CASE v.type = "string" -> v.s
      [] v.type = "number" -> IF v.n = 0 THEN <<"0">> ELSE <<"7">>
      [] OTHER -> <<"None">>

RECURSIVE lstrip(_)
lstrip(t) == IF t # <<>> /\ Head(t) = "." THEN lstrip(Tail(t)) ELSE t

RECURSIVE rstrip(_)
rstrip(t) ==
    IF t # <<>> /\ t[Len(t)] = "." THEN rstrip(SubSeq(t, 1, Len(t) - 1))
    ELSE t

\* t.strip('.')
strip(t) == rstrip(lstrip(t))

\* sep.join(lst)
RECURSIVE join(_, _)
join(sep, lst) ==
    IF lst = <<>> THEN <<>>
    ELSE IF Len(lst) = 1 THEN lst[1]
    ELSE lst[1] \o sep \o join(sep, Tail(lst))

\* [str(v).strip('.') for v in response.json().values() if v]
stripped_values(values) ==
    LET kept == SelectSeq(values, Truthy)
    IN  [i \in DOMAIN kept |-> strip(Str(kept[i]))]

\* 400 <= response.status_code < 600
IsError(status) == 400 <= status /\ status < 600

\* The error message handling of request() and raise_for_status(): json()
\* raises ValueError on a body that is not JSON, and a JSON value that is
\* not an object has no values().
handle_response(m, resp, serialize) ==
    LET parse == serialize /\ IsError(resp.status)
        reason == IF parse /\ resp.body.json = "object"
                  THEN join(<<".", " ">>, stripped_values(resp.body.values))
                  ELSE resp.reason
        m1 == [m EXCEPT !.resp = resp, !.serialize = serialize]
    IN  IF parse /\ resp.body.json = "other"
        THEN [m1 EXCEPT !.raised = "AttributeError"]
        ELSE IF IsError(resp.status)
        THEN [m1 EXCEPT !.raised = "HTTPError", !.status = resp.status,
                        !.reason = reason]
        ELSE m1

\* The answers to a command: a success with one of the envelopes, or an
\* error status.
CommandResponses ==
    {[OkResponse EXCEPT !.body.envelope = e] :
        e \in VehicleEnvelopes \cup ProductEnvelopes}
        \cup {ErrorResponse}

\* Vehicle.command(), src/teslapy/__init__.py lines 723-728, on the
\* dictionary that api() returned.
vehicle_envelope3(m, name) ==
    LET e == m.resp.body.envelope
    IN  IF e.response # "present" \/ e.result = "missing"
        THEN [m EXCEPT !.raised = "VehicleError", !.about = name]
        ELSE IF e.result = "false"
        THEN IF e.reason = "missing" THEN [m EXCEPT !.raised = "KeyError"]
             ELSE [m EXCEPT !.raised = "VehicleError", !.about = e.reason]
        ELSE [m EXCEPT !.returned = e.result]

\* The same without the test of the result.
vehicle_envelope2_returns_result(m) ==
    LET e == m.resp.body.envelope
    IN  IF e.response = "missing" \/ e.result = "missing"
        THEN [m EXCEPT !.raised = "KeyError"]
        ELSE [m EXCEPT !.returned = e.result]

\* Vehicle.command(), src/teslapy/teslapy.py lines 388-391.
vehicle_envelope2(m) ==
    LET e == m.resp.body.envelope
    IN  IF e.response = "missing" \/ e.result = "missing"
        THEN [m EXCEPT !.raised = "KeyError"]
        ELSE IF e.result = "false"
        THEN IF e.reason = "missing" THEN [m EXCEPT !.raised = "KeyError"]
             ELSE [m EXCEPT !.raised = "VehicleError", !.about = e.reason]
        ELSE [m EXCEPT !.returned = e.result]

\* Product.command(), src/teslapy/__init__.py lines 803-806; get() of a
\* missing message is None.
product_envelope3(m) ==
    LET e == m.resp.body.envelope
        message == IF e.message = "missing" THEN "None" ELSE e.message
    IN  IF e.response = "missing" \/ e.code = "missing"
        THEN [m EXCEPT !.raised = "KeyError"]
        ELSE IF e.code = "201" THEN [m EXCEPT !.returned = message]
        ELSE [m EXCEPT !.raised = "ProductError", !.about = message]

\* dict.update(other): the members of other are set in the dictionary.
dict_update(d, other) ==
    [k \in (DOMAIN d) \cup (DOMAIN other) |->
        IF k \in DOMAIN other THEN other[k] ELSE d[k]]

\* A Vehicle or a Product is a dictionary, in revision 3 with the time of
\* its last update; before the application has one there is none.
NoVehicle == [constructed |-> FALSE, fields |-> EmptyDict, timestamp |-> 0]

NoProduct == [constructed |-> FALSE, fields |-> EmptyDict]

\* No sync_wake_up() has been called.
NoWake ==
    [at |-> "idle", timeout |-> 0, interval |-> 0, backoff |-> 0,
     start_time |-> 0, was |-> "", wakes |-> 0, result |-> "none",
     answered |-> FALSE, in |-> EmptyDict, resp |-> NoResponse]

NoObjects == vehicle = NoVehicle /\ product = NoProduct /\ wake = NoWake

\* The products of the account as the product list gives them, and what
\* the server can put into the response member of the answer to a detail
\* request: any of the members, with any value.
VehicleStates == {"online", "asleep"}

ListedVehicles == {[id_s |-> "1", state |-> st] : st \in VehicleStates}

ListedSites == {[energy_site_id |-> "1", site_name |-> "home"]}

\* The dictionaries with some of the members of r, each with one of its
\* values.
Partial(r) ==
    UNION {{f \in [K -> UNION {r[k] : k \in K}] : \A k \in K : f[k] \in r[k]} :
            K \in SUBSET DOMAIN r}

VehicleDetails == Partial([id_s |-> {"1", "2"}, state |-> VehicleStates])

SiteDetails ==
    Partial([energy_site_id |-> {"1", "2"}, site_name |-> {"cabin"}])

\* The same with the state of the vehicle alone.
StateDetails == Partial([state |-> VehicleStates])

\* The answers to a detail request: an error status, a JSON object without
\* the member response, with response null, or with an object as response.
DetailResponses(details) ==
    {ErrorResponse}
        \cup {[OkResponse EXCEPT !.body.envelope = [response |-> r]] :
                r \in {"missing", "null"}}
        \cup {[OkResponse EXCEPT !.body.envelope =
                    [response |-> "present", fields |-> f]] : f \in details}

\* self.update(self.api(name)['response']): the subscript raises KeyError
\* when the member is missing, update(None) raises TypeError.
response_member(m) ==
    LET e == m.resp.body.envelope
    IN  CASE e.response = "missing" -> [m EXCEPT !.raised = "KeyError"]
          [] e.response = "null" -> [m EXCEPT !.raised = "TypeError"]
          [] OTHER -> m

NoCall == [op |-> "none", auth |-> FALSE]

\* What a step is observed to do: the operation and the thread or session
\* that ran it, the requests sent (in order), the calls of the cache loader
\* and dumper, the calls of the authenticator and the passcode getter, how a
\* login and a refresh inside the step ended, the exception raised and what
\* its message names, the endpoint name and the path variables that an
\* api() call was given, the backend response that a request() call
\* received, the status and reason that its HTTPError carries, what a
\* command returned, the answer to the region discovery of a login, the
\* password that a login found in the session, the answers to its request
\* for the MFA factors and to the passcode verification, and the
\* sso_base_url that a constructor was given.
NoEvent ==
    [op |-> "init", t |-> 0, sent |-> <<>>, loads |-> 0, dumps |-> 0,
     callbacks |-> 0, login |-> "none", refresh |-> "none",
     raised |-> "none", about |-> "", name |-> "", path_vars |-> {},
     resp |-> NoResponse, serialize |-> TRUE, status |-> 0,
     reason |-> <<>>, returned |-> "none", disc |-> "none",
     password |-> FALSE, factors |-> "unasked", valid |-> "unasked",
     url |-> ""]

NoSave == [token |-> EmptyDict, url |-> ""]

----------------------------------------------------------------------------
(* Revision 1: src/teslapy.py                                              *)

\* The session attributes after lines 21-32 of __init__.
NewSession1(pw) ==
    [email |-> "A", password |-> pw, authorized |-> FALSE,
     token |-> EmptyDict, expires_at |-> 0, bearer |-> 0,
     constructed |-> FALSE]

\* The test `0 < self.expires_at < time.time()`.
Expired1(expires_at) == 0 < expires_at /\ expires_at < now

\* The working state of one step of thread t.
M1 ==
    [s |-> ts, c |-> cache, at |-> "ret", sent |-> <<>>, loads |-> 0,
     dumps |-> 0, raised |-> "none", stale |-> stale, srv |-> srv]

Msg1(m, t, kind, auth) ==
    [kind |-> kind, auth |-> auth, to |-> "owner-api", verifier |-> 0,
     bearer |-> m.s.bearer,
     authorized |-> m.s.authorized,
     expired |-> ServerExpired(m.srv, m.s.bearer),
     stale |-> m.s.bearer \in m.stale,
     inflight |-> \E u \in Threads \ {t} : pc[u] = "refresh_wait"]

WaitFor(kind) ==
    CASE kind = "login" -> "fetch_wait"
      [] kind = "refresh" -> "refresh_wait"
      [] OTHER -> "req_wait"

\* request(), lines 42-47: insert the bearer token and send.
send1(m, t, kind, auth) ==
    LET s2 == IF m.s.authorized
              THEN [m.s EXCEPT !.bearer = m.s.token.access_token]
              ELSE m.s
        m2 == [m EXCEPT !.s = s2]
    IN  [m2 EXCEPT !.sent = Append(@, Msg1(m2, t, kind, auth)),
                   !.at = WaitFor(kind)]

RECURSIVE request1(_, _, _, _)

\* The same with the request of refresh_token() starting a refresh of its
\* own.
refresh_token1_nested(m, t) ==
    IF m.s.authorized
    THEN request1(send1([m EXCEPT !.s.expires_at = 0], t, "refresh", FALSE),
                  t, "refresh", FALSE)
    ELSE m

\* refresh_token(), lines 114-121: up to the refresh request.
refresh_token1(m, t) ==
    IF m.s.authorized
    THEN request1([m EXCEPT !.s.expires_at = 0], t, "refresh", FALSE)
    ELSE m

\* request(), lines 39-47: up to the moment a request leaves.
request1(m, t, kind, auth) ==
    IF m.s.authorized /\ Expired1(m.s.expires_at)
    THEN refresh_token1(m, t)
    ELSE send1(m, t, kind, auth)

\* fetch_token(), lines 61-69: up to the authentication request.
fetch_token1(m, t) ==
    IF m.s.authorized THEN m
    ELSE IF ~m.s.password
         THEN [m EXCEPT !.at = "idle", !.raised = "ValueError"]
         ELSE request1(m, t, "login", FALSE)

\* _token_updater(), lines 83-110.
token_updater1(m, t, ioOk) ==
    LET doc == cache_load(m.c)
        m1 == [m EXCEPT !.loads = @ + 1]
    IN  IF m.s.authorized
        THEN [m1 EXCEPT
                !.c = cache_dump(@, CachePut(doc, m.s.email, m.s.token), ioOk),
                !.dumps = @ + 1]
        ELSE IF m.s.email \in DOMAIN doc
        THEN LET tok == doc[m.s.email]
                 s1 == [m.s EXCEPT !.token = tok,
                           !.expires_at = tok.created_at + tok.expires_in]
             IN  IF Expired1(s1.expires_at)
                 THEN fetch_token1([m1 EXCEPT !.s = s1], t)
                 ELSE [m1 EXCEPT !.s = [s1 EXCEPT !.authorized = TRUE]]
        ELSE m1

\* What the caller of fetch_token()/_token_updater() does once it returns:
\* api() goes on to request() (lines 153-162), the constructor is done.
resume1(m, t, k) ==
    IF m.at # "ret" THEN m
    ELSE IF k.op = "api" THEN request1(m, t, "api", k.auth)
    ELSE IF k.op = "ctor" THEN [m EXCEPT !.s.constructed = TRUE]
    ELSE m

\* api(), lines 150-162, for an endpoint whose AUTH is k.auth.
api1(m, t, k) ==
    IF k.auth /\ ~m.s.authorized
    THEN resume1(fetch_token1(m, t), t, k)
    ELSE request1(m, t, "api", k.auth)

Commit1(t, m, op, k) ==
    /\ ts' = m.s
    /\ cache' = m.c
    /\ stale' = m.stale
    /\ srv' = m.srv
    /\ pc' = [pc EXCEPT ![t] = IF m.at = "ret" THEN "idle" ELSE m.at]
    /\ call' = [call EXCEPT ![t] = IF m.at \in {"ret", "idle"} THEN NoCall ELSE k]
    /\ ev' = [NoEvent EXCEPT !.op = op, !.t = t, !.sent = m.sent,
                              !.loads = m.loads, !.dumps = m.dumps,
                              !.raised = m.raised]
    /\ UNCHANGED <<rev, now, response, nthr, sess, saved, nonce, exchanged,
                   held, objects>>

Active(t) == t <= nthr /\ pc[t] = "idle" /\ ts.constructed

\* Tesla(email, password, ...): __init__, lines 19-33.
Ctor1(pw) ==
    /\ ~ts.constructed /\ pc[1] = "idle"
    /\ \E ioOk \in BOOLEAN :
        LET k == [op |-> "ctor", auth |-> FALSE]
            m == token_updater1([M1 EXCEPT !.s = NewSession1(pw)], 1, ioOk)
        IN  Commit1(1, resume1(m, 1, k), "ctor", k)

\* tesla.api(name) for an endpoint with AUTH = auth.
Api1(t, auth) ==
    /\ Active(t)
    /\ LET k == [op |-> "api", auth |-> auth]
       IN  Commit1(t, api1(M1, t, k), "api", k)

\* tesla.get(uri): a direct request() (Vehicle.mobile_enabled, line 241).
Get1(t) ==
    /\ Active(t)
    /\ LET k == [op |-> "get", auth |-> FALSE]
       IN  Commit1(t, request1(M1, t, "api", FALSE), "get", k)

\* tesla.fetch_token() called by the application.
FetchToken1(t) ==
    /\ Active(t)
    /\ LET k == [op |-> "fetch_token", auth |-> FALSE]
       IN  Commit1(t, fetch_token1(M1, t), "fetch_token", k)

\* tesla.refresh_token() called by the application.
RefreshToken1(t) ==
    /\ Active(t)
    /\ LET k == [op |-> "refresh_token", auth |-> FALSE]
       IN  Commit1(t, refresh_token1(M1, t), "refresh_token", k)

\* The responses the server can give to an AUTHENTICATE request: an HTTP or
\* transport error, a JSON object without access_token, or a new token.
Responses == {"error", "empty", "token"}

Reply(resp) ==
    IF resp = "token" THEN Token(Len(srv) + 1, now) ELSE EmptyDict

\* The server's state after the response (bounded number of tokens).
CanIssue(resp) == resp = "token" => Len(srv) < 2 + MaxIssued

Issue(m, resp) ==
    IF resp = "token" THEN [m EXCEPT !.srv = Append(@, now + ExpiresIn)] ELSE m

\* fetch_token(), lines 69-78, from the response of the request on.
FetchResponse1(t, resp, ioOk) ==
    /\ t <= nthr /\ pc[t] = "fetch_wait"
    /\ CanIssue(resp)
    /\ LET k == call[t]
           r == Reply(resp)
           M == Issue(M1, resp)
           m == IF resp = "error"
                THEN [M EXCEPT !.at = "idle", !.raised = "HTTPError"]
                ELSE IF "access_token" \in DOMAIN r
                THEN token_updater1(
                        [M EXCEPT !.s.token = r,
                                   !.s.expires_at = r.created_at + r.expires_in,
                                   !.s.authorized = TRUE], t, ioOk)
                ELSE token_updater1(M, t, ioOk)
       IN  Commit1(t, resume1(m, t, k), "fetch_response", k)

\* refresh_token(), lines 121-128, from the response of the request on, and
\* then request(), lines 42-47, of the call that started the refresh.
RefreshResponse1(t, resp, ioOk) ==
    /\ t <= nthr /\ pc[t] = "refresh_wait"
    /\ CanIssue(resp)
    /\ LET k == call[t]
           r == Reply(resp)
           M == Issue(M1, resp)
           \* the token whose renewal request() asked for (line 41)
           old == IF k.op = "refresh_token" THEN {}
                  ELSE {ts.token.access_token}
           m == IF resp = "error"
                THEN [M EXCEPT !.at = "idle", !.raised = "HTTPError",
                                !.stale = @ \cup old]
                ELSE IF "access_token" \in DOMAIN r
                THEN token_updater1(
                        [M EXCEPT !.s.token = r,
                                   !.s.expires_at = r.created_at + r.expires_in],
                        t, ioOk)
                ELSE [M EXCEPT !.stale = @ \cup old]
           m2 == IF m.at = "ret" /\ k.op # "refresh_token"
                 THEN send1(m, t, "api", k.auth)
                 ELSE m
       IN  Commit1(t, m2, "refresh_response", k)

\* The response of the backend request: request(), lines 47-57.
Response1(t, ok) ==
    /\ t <= nthr /\ pc[t] = "req_wait"
    /\ Commit1(t, [M1 EXCEPT !.raised = IF ok THEN "none" ELSE "HTTPError"],
               "response", call[t])

\* Time passes.
Tick ==
    /\ now < MaxTime
    /\ now' = now + 1
    /\ ev' = [NoEvent EXCEPT !.op = "tick"]
    /\ UNCHANGED <<rev, srv, cache, response, ts, pc, call, nthr, sess, saved,
                   nonce, stale, exchanged, held, objects>>

Init1Common ==
    /\ rev = 1
    /\ sess = <<>> /\ saved = <<>> /\ nonce = 0 /\ exchanged = <<>>
    /\ held = <<>>
    /\ NoObjects
    /\ now = 0
    /\ srv = <<ExpiresIn, ExpiresIn>>
    /\ response = OkResponse
    /\ ts = NewSession1(FALSE)
    /\ pc = [t \in Threads |-> "idle"]
    /\ call = [t \in Threads |-> NoCall]
    /\ stale = {}
    /\ ev = NoEvent

Init1 == Init1Common /\ nthr = 1 /\ cache \in InitCaches

\* The GUI starts its worker threads on a session that was logged in before:
\* the cache holds a token of the identity.
Init1C ==
    /\ Init1Common /\ nthr = 2
    /\ cache \in {c \in InitCaches : "A" \in DOMAIN c.doc}

Next1 ==
    \/ \E pw \in BOOLEAN : Ctor1(pw)
    \/ \E t \in Threads, auth \in BOOLEAN : Api1(t, auth)
    \/ \E t \in Threads : Get1(t)
    \/ \E t \in Threads : FetchToken1(t)
    \/ \E t \in Threads : RefreshToken1(t)
    \/ \E t \in Threads, resp \in Responses, ioOk \in BOOLEAN :
            FetchResponse1(t, resp, ioOk)
    \/ \E t \in Threads, resp \in Responses, ioOk \in BOOLEAN :
            RefreshResponse1(t, resp, ioOk)
    \/ \E t \in Threads, ok \in BOOLEAN : Response1(t, ok)
    \/ Tick

\* Revision 1 used from one thread.
SpecV1 == Init1 /\ [][Next1]_vars

\* Revision 1 with the session shared by two threads, as in the GUI.
SpecV1C == Init1C /\ [][Next1]_vars

----------------------------------------------------------------------------
(* Revision 3: src/teslapy/__init__.py                                     *)

Sessions == {1, 2}

\* Number of logins (PKCE code verifiers) a run may start.
MaxLogins == 1

SSO_BASE_URL == "https://auth.tesla.com/"

\* The regional mirror the provider can redirect a login to.
SSO_REGION_URL == "https://auth.tesla.cn/"

\* A token as oauthlib parses it from a token response at time `at`:
\* expires_at is added to the response.
Token3(n, at) ==
    [access_token |-> n, refresh_token |-> n, expires_in |-> ExpiresIn,
     expires_at |-> at + ExpiresIn]

\* The cache record written for an identity (line 324).
CacheRecord3_default_url(url, token) == [url |-> SSO_BASE_URL, sso |-> token]

CacheRecord3(url, token) == [url |-> url, sso |-> token]

InitDocs3 ==
    { [i \in D |-> IF i = "A"
                   THEN CacheRecord3(SSO_REGION_URL, Token3(1, 0))
                   ELSE CacheRecord3(SSO_BASE_URL, Token3(2, 0))]
        : D \in SUBSET Ids }

InitCaches3 ==
    {[state |-> "missing", doc |-> EmptyDict]}
        \cup {[state |-> "ok", doc |-> d] : d \in InitDocs3}

\* A session object that has not been constructed yet.
Unborn ==
    [constructed |-> FALSE, email |-> "A", token |-> EmptyDict,
     access_token |-> 0, sso_base_url |-> SSO_BASE_URL, code_verifier |-> 0,
     password |-> FALSE, expires_at |-> 0, authorized |-> FALSE,
     bearer |-> 0]

\* The attributes after lines 81-107 of __init__.
NewSession3(email, url) ==
    [Unborn EXCEPT !.constructed = TRUE, !.email = email,
                   !.sso_base_url = url]

\* OAuth2Session.authorized: bool(self.access_token).
authorized3(s) == s.access_token # 0

\* `self.token = value` of OAuth2Session: the client takes the access token
\* of a token that has one and keeps its own otherwise.
set_token3(s, tok) ==
    [s EXCEPT !.token = tok,
              !.access_token = IF "access_token" \in DOMAIN tok
                               THEN tok.access_token ELSE @]

\* add_token() of the OAuth client: the token is past its expires_at.
Expired3(s) ==
    /\ "expires_at" \in DOMAIN s.token
    /\ s.token.expires_at # 0 /\ s.token.expires_at < now

\* The working state of one operation of session id.
M3(id) ==
    [id |-> id, ss |-> sess[id], c |-> cache, srv |-> srv, saved |-> saved,
     nonce |-> nonce, exchanged |-> exchanged[id], sent |-> <<>>,
     loads |-> 0, dumps |-> 0,
     callbacks |-> 0, login |-> "none", refresh |-> "none",
     raised |-> "none", about |-> "", name |-> "", path_vars |-> {},
     resp |-> NoResponse, serialize |-> TRUE, status |-> 0,
     reason |-> <<>>, returned |-> "none", disc |-> "none",
     password |-> FALSE, factors |-> "unasked", valid |-> "unasked",
     url |-> ""]

\* A request of the session leaves: the bearer is attached unless the token
\* is withheld or empty (OAuth2Session.request).
Msg3(m, kind, auth, to, withhold) ==
    LET b == IF withhold \/ m.ss.token = EmptyDict THEN 0
             ELSE m.ss.access_token
    IN  [kind |-> kind, auth |-> auth, to |-> to,
         verifier |-> IF kind = "token" THEN m.ss.code_verifier ELSE 0,
         bearer |-> b, authorized |-> authorized3(m.ss),
         expired |-> ServerExpired(m.srv, b), stale |-> FALSE,
         inflight |-> FALSE]

send3(m, kind, auth, to, withhold) ==
    [m EXCEPT !.sent = Append(@, Msg3(m, kind, auth, to, withhold))]

raise3(m, what) == [m EXCEPT !.raised = what]

\* The rest of a function runs unless an exception was raised.
Then(m, rest(_)) == IF m.raised # "none" THEN m ELSE rest(m)

\* line 317: `if token: return`.
SkipUpdate3_never(token) == FALSE

SkipUpdate3(token) == token # EmptyDict

\* line 323: `if self.authorized:` selects the write branch.
WritesCache3_always(s) == TRUE

WritesCache3(s) == authorized3(s)

\* The same with the URL of the record ignored.
cached_url3_ignored(entry, url) == url

\* line 328: cache[self.email].get('url', self.sso_base_url).
cached_url3(entry, url) == IF "url" \in DOMAIN entry THEN entry.url ELSE url

\* lines 323-331 on the loaded document doc: an authorized session sets its
\* entry in the document and dumps it, another one takes the URL and the
\* token of its entry.
update3(m, doc, ioOk) ==
    LET e == m.ss.email
    IN  IF WritesCache3(m.ss)
        THEN [m EXCEPT
                !.c = cache_dump(@,
                        CachePut(doc, e,
                            CacheRecord3(m.ss.sso_base_url, m.ss.token)),
                        ioOk),
                !.dumps = @ + 1,
                !.saved = IF ~ioOk THEN @
                          ELSE [@ EXCEPT ![e] =
                                  IF m.ss.token = EmptyDict THEN NoSave
                                  ELSE [token |-> m.ss.token,
                                        url |-> m.ss.sso_base_url]]]
        ELSE IF e \in DOMAIN doc /\ ~IsRecord(doc[e])
        THEN raise3(m, "AttributeError")
        ELSE IF e \in DOMAIN doc
        THEN LET url == cached_url3(doc[e], m.ss.sso_base_url)
                 tok == IF "sso" \in DOMAIN doc[e] THEN doc[e].sso
                        ELSE EmptyDict
             IN  [m EXCEPT
                    !.ss = set_token3([m.ss EXCEPT !.sso_base_url = url], tok)]
        ELSE m

\* lines 319-321: the document is loaded; it must be a dict.
load3(m) ==
    IF ~IsMapping(m.c) THEN raise3([m EXCEPT !.loads = @ + 1], "ValueError")
    ELSE [m EXCEPT !.loads = @ + 1]

\* _token_updater(token), lines 315-337.
token_updater3(m, token, ioOk) ==
    IF SkipUpdate3(token) THEN m
    ELSE Then(load3(m), LAMBDA x : update3(x, cache_load(m.c), ioOk))

\* What the environment answers during one operation: the region discovery
\* GET, the authenticator, the token endpoint, the cache file, the backend.
Inputs3 ==
    [disc : {"error", "ok", "redirect"}, authn : BOOLEAN,
     tok : {"token", "error"}, ioOk : BOOLEAN, status : BOOLEAN]

\* The answers that matter to an operation that logs in (login), renews the
\* token (renew) and sends a backend request (backend); an answer that is
\* never asked for is fixed, so that each outcome is explored once.
InputsFor(login, renew, backend) ==
    { in \in Inputs3 :
        /\ ~login => in.disc = "ok" /\ in.authn
        /\ in.disc = "error" => in.authn
        /\ ~(login /\ in.disc # "error" /\ in.authn) /\ ~renew
                => in.tok = "token"
        /\ in.tok = "error" \/ ~(renew \/ (login /\ in.disc # "error" /\ in.authn))
                => in.ioOk
        /\ ~backend \/ in.tok = "error" \/ in.disc = "error" \/ ~in.authn
                => in.status }

\* The token endpoint answers with a new token.
grant3(m) ==
    [m EXCEPT !.srv = Append(@, now + ExpiresIn),
              !.ss = set_token3(@, Token3(Len(m.srv) + 1, now))]

\* The same with the redirect of the discovery ignored.
discover3_keeps_url(m, in) ==
    CASE in.disc = "error" -> raise3([m EXCEPT !.disc = in.disc],
                                     "ConnectionError")
      [] OTHER -> [m EXCEPT !.disc = in.disc]

\* The region discovery GET of authorization_url(), lines 198-206.
discover3(m, in) ==
    CASE in.disc = "error" -> raise3([m EXCEPT !.disc = in.disc],
                                     "ConnectionError")
      [] in.disc = "redirect" ->
            [m EXCEPT !.disc = in.disc, !.ss.sso_base_url = SSO_REGION_URL]
      [] OTHER -> [m EXCEPT !.disc = in.disc]

\* authorization_url(), lines 185-206.
authorization_url3(m, in) ==
    IF authorized3(m.ss) THEN m
    ELSE discover3(
            send3([m EXCEPT !.nonce = @ + 1, !.ss.code_verifier = m.nonce + 1],
                  "discover", FALSE, m.ss.sso_base_url, FALSE), in)

\* line 225: the authenticator is handed the URL and returns the redirect.
authenticate3(m, in) ==
    IF in.authn THEN [m EXCEPT !.callbacks = @ + 1]
    ELSE raise3([m EXCEPT !.callbacks = @ + 1], "MissingCodeError")

\* lines 227-231: the token request leaves with code_verifier set to
\* self.code_verifier (line 230).
token_request3(m) ==
    [send3(m, "token", FALSE, m.ss.sso_base_url, TRUE)
        EXCEPT !.exchanged = @ \cup {m.ss.code_verifier}]

\* lines 227-231: the code is exchanged for a token.
exchange3(m, in) ==
    IF in.tok = "error"
    THEN raise3(token_request3(m), "OAuth2Error")
    ELSE [grant3(token_request3(m)) EXCEPT !.login = "ok"]

\* lines 227-233: the code is exchanged and the token saved.
code3(m, in) ==
    Then(exchange3(m, in), LAMBDA x : token_updater3(x, EmptyDict, in.ioOk))

failed3(m) == IF m.raised # "none" THEN [m EXCEPT !.login = "failed"] ELSE m

\* fetch_token(), lines 222-233, for a session that is not authorized.
login3(m, in) ==
    failed3(Then(Then(authorization_url3(m, in),
                      LAMBDA x : authenticate3(x, in)),
                 LAMBDA x : code3(x, in)))

\* fetch_token(), lines 220-233.
fetch_token3_no_guard(m, in) == login3(m, in)

fetch_token3(m, in) == IF authorized3(m.ss) THEN m ELSE login3(m, in)

\* fetch_token(authorization_response=...), lines 220-233: line 222 skips
\* authorization_url() and the authenticator.
fetch_token_with3(m, in) ==
    IF authorized3(m.ss) THEN m ELSE failed3(code3(m, in))

\* refresh_token(), lines 246-252.
refresh_token3(m, in) ==
    IF ~authorized3(m.ss) THEN raise3(m, "ValueError")
    ELSE IF in.tok = "error"
    THEN [raise3(send3(m, "refresh", FALSE, m.ss.sso_base_url, TRUE),
                 "OAuth2Error") EXCEPT !.refresh = "failed"]
    ELSE token_updater3(
            [grant3(send3(m, "refresh", FALSE, m.ss.sso_base_url, TRUE))
                EXCEPT !.refresh = "ok"], EmptyDict, in.ioOk)

\* OAuth2Session.request: an expired token is refreshed through
\* refresh_token() and handed to token_updater(token).
renew3(m, withhold, in) ==
    IF m.ss.token # EmptyDict /\ ~withhold /\ Expired3(m.ss)
    THEN Then(refresh_token3(m, in),
              LAMBDA x : token_updater3(x, x.ss.token, in.ioOk))
    ELSE m

\* The same with the request sent again after an error status.
send_api3_retry(m, auth, withhold, in) ==
    LET x == send3(m, "api", auth, "owner-api", withhold)
    IN  handle_response(IF in.status THEN x
                        ELSE send3(x, "api", auth, "owner-api", withhold),
                        IF in.status THEN OkResponse ELSE ErrorResponse, TRUE)

\* lines 150-162 of request(): the request is sent and the status checked.
send_api3(m, auth, withhold, in) ==
    handle_response(send3(m, "api", auth, "owner-api", withhold),
                    IF in.status THEN OkResponse ELSE ErrorResponse, TRUE)

\* request(method, url, serialize, withhold_token), lines 143-162, for a
\* backend URL that is answered with resp.
request_resp3(m, serialize, withhold, in, resp) ==
    Then(renew3(m, withhold, in),
         LAMBDA x : handle_response(
                        send3(x, "api", ~withhold, "owner-api", withhold),
                        resp, serialize))

\* request(), lines 143-162, for a backend URL.
request3(m, auth, withhold, in) ==
    Then(renew3(m, withhold, in),
         LAMBDA x : send_api3(x, auth, withhold, in))

\* api(), lines 360-373, for an endpoint whose AUTH is auth.
api3(m, auth, in) ==
    Then(IF auth /\ ~authorized3(m.ss) THEN fetch_token3(m, in) ELSE m,
         LAMBDA x : request3(x, auth, ~auth, in))

\* The endpoints file: the names api() knows, whether the endpoint needs
\* authorization, and the placeholders of its URI.
Endpoints ==
    [AUTHENTICATE |-> [AUTH |-> FALSE, vars |-> {}],
     VEHICLE_LIST |-> [AUTH |-> TRUE, vars |-> {}],
     VEHICLE_DATA |-> [AUTH |-> TRUE, vars |-> {"vehicle_id"}]]

\* The names a caller passes: the known ones and one that is not in the file.
Names == DOMAIN Endpoints \cup {"NO_SUCH"}

\* The path variables a caller passes.
PathVars == SUBSET {"vehicle_id"}

NoEndpoint == [AUTH |-> FALSE, vars |-> {"none"}]

lookup_default(name) ==
    IF name \in DOMAIN Endpoints THEN Endpoints[name]
    ELSE Endpoints["VEHICLE_LIST"]

\* self.endpoints[name]; NoEndpoint stands for the KeyError.
lookup(name) ==
    IF name \in DOMAIN Endpoints THEN Endpoints[name] ELSE NoEndpoint

\* raise ValueError(...) with a message that names what.
raise_about3(m, what) == [raise3(m, "ValueError") EXCEPT !.about = what]

\* uri.format(**path_vars): the KeyError names a placeholder that was not
\* passed.
format3(m, endpoint, path_vars) ==
    IF endpoint.vars \subseteq path_vars THEN m
    ELSE raise_about3(m, CHOOSE v \in endpoint.vars : v \notin path_vars)

\* api(), lines 339-373: the lookup of the name, the login of an
\* unauthorized session, the substitution of the path variables, the
\* request.
api_named3(m, name, path_vars, in) ==
    LET endpoint == lookup(name)
    IN  IF endpoint = NoEndpoint THEN raise_about3(m, name)
        ELSE Then(IF endpoint.AUTH /\ ~authorized3(m.ss)
                  THEN fetch_token3(m, in) ELSE m,
             LAMBDA x : Then(format3(x, endpoint, path_vars),
             LAMBDA y : request3(y, endpoint.AUTH, ~endpoint.AUTH, in)))

\* api(), lines 360-373, for an endpoint that requires authorization, with
\* its path variables, answered with resp.
api_resp3(m, in, resp) ==
    Then(IF ~authorized3(m.ss) THEN fetch_token3(m, in) ELSE m,
         LAMBDA x : request_resp3(x, TRUE, FALSE, in, resp))

\* Vehicle.command(name), lines 720-728.
vehicle_command3(m, name, in, resp) ==
    Then(api_resp3(m, in, resp), LAMBDA x : vehicle_envelope3(x, name))

\* Product.command(name), lines 801-806.
product_command3(m, in, resp) ==
    Then(api_resp3(m, in, resp), LAMBDA x : product_envelope3(x))

\* logout(), lines 267-280.
logout3(m, ioOk) ==
    IF ~authorized3(m.ss) THEN m
    ELSE [token_updater3([m EXCEPT !.ss.token = EmptyDict], EmptyDict, ioOk)
            EXCEPT !.ss.access_token = 0]

Effect3(m, op) ==
    /\ sess' = [sess EXCEPT ![m.id] = m.ss]
    /\ cache' = m.c
    /\ srv' = m.srv
    /\ saved' = m.saved
    /\ nonce' = m.nonce
    /\ exchanged' = [exchanged EXCEPT ![m.id] = m.exchanged]
    /\ ev' = [op |-> op, t |-> m.id, sent |-> m.sent, loads |-> m.loads,
              dumps |-> m.dumps, callbacks |-> m.callbacks,
              login |-> m.login, refresh |-> m.refresh, raised |-> m.raised,
              about |-> m.about, name |-> m.name, path_vars |-> m.path_vars,
              resp |-> m.resp, serialize |-> m.serialize,
              status |-> m.status, reason |-> m.reason,
              returned |-> m.returned, disc |-> m.disc,
              password |-> m.password, factors |-> m.factors,
              valid |-> m.valid, url |-> m.url]
    /\ UNCHANGED <<rev, now, response, ts, call, nthr, stale>>

\* An operation that runs from its call to its return in one step.
Commit3(m, op) == Effect3(m, op) /\ UNCHANGED <<pc, held, objects>>

\* The bounds on what the server issues and on the logins started.
Bounded3(m) == Len(m.srv) <= 2 + MaxIssued /\ m.nonce <= MaxLogins

\* The session objects the run uses.
Clients == 1..nthr

\* Tesla(email, sso_base_url=url): __init__, lines 81-109. The program is
\* started again, or builds a new object in place of the old one.
Ctor3(id, email, url) ==
    /\ rev = 3 /\ id \in Clients
    /\ LET m == token_updater3([M3(id) EXCEPT !.ss = NewSession3(email, url),
                                              !.exchanged = {},
                                              !.url = url],
                               EmptyDict, TRUE)
       IN  Commit3(IF m.raised = "none" THEN m
                   ELSE [m EXCEPT !.ss = sess[id],
                                  !.exchanged = exchanged[id]], "ctor")

FetchToken3(id) ==
    /\ rev = 3 /\ id \in Clients /\ sess[id].constructed
    /\ \E in \in InputsFor(~authorized3(sess[id]), FALSE, FALSE) :
         LET m == fetch_token3(M3(id), in)
         IN  Bounded3(m) /\ Commit3(m, "fetch_token")

\* tesla.authorization_url() called by the application, which shows the
\* page itself.
AuthorizationUrl3(id) ==
    /\ rev = 3 /\ id \in Clients /\ sess[id].constructed
    /\ \E in \in { i \in InputsFor(~authorized3(sess[id]), FALSE, FALSE) :
                    i.authn } :
         LET m == authorization_url3(M3(id), in)
         IN  Bounded3(m) /\ Commit3(m, "authorization_url")

\* tesla.fetch_token(authorization_response=...) with the redirected URL
\* that the application obtained.
FetchTokenWith3(id) ==
    /\ rev = 3 /\ id \in Clients /\ sess[id].constructed
    /\ \E in \in InputsFor(FALSE, ~authorized3(sess[id]), FALSE) :
         LET m == fetch_token_with3(M3(id), in)
         IN  Bounded3(m) /\ Commit3(m, "fetch_token")

RefreshToken3(id) ==
    /\ rev = 3 /\ id \in Clients /\ sess[id].constructed
    /\ \E in \in InputsFor(FALSE, authorized3(sess[id]), FALSE) :
         LET m == refresh_token3(M3(id), in)
         IN  Bounded3(m) /\ Commit3(m, "refresh_token")

\* tesla.api(name) for an endpoint with AUTH = auth.
Api3(id, auth) ==
    /\ rev = 3 /\ id \in Clients /\ sess[id].constructed
    /\ \E in \in InputsFor(auth /\ ~authorized3(sess[id]),
                auth /\ authorized3(sess[id]) /\ Expired3(sess[id]),
                TRUE) :
         LET m == api3(M3(id), auth, in)
         IN  Bounded3(m) /\ Commit3(m, "api")

\* tesla.api(name, path_vars) for any name and any path variables.
ApiNamed3(id, name, path_vars) ==
    /\ rev = 3 /\ id \in Clients /\ sess[id].constructed
    /\ LET e    == lookup(name)
           auth == e # NoEndpoint /\ e.AUTH
       IN  \E in \in InputsFor(auth /\ ~authorized3(sess[id]),
                     auth /\ authorized3(sess[id]) /\ Expired3(sess[id])
                          /\ e.vars \subseteq path_vars,
                     e # NoEndpoint /\ e.vars \subseteq path_vars) :
             LET m == api_named3([M3(id) EXCEPT !.name = name,
                                                !.path_vars = path_vars],
                                 name, path_vars, in)
             IN  Bounded3(m) /\ Commit3(m, "api")

\* tesla.request(method, url, serialize, withhold_token=withhold) for a
\* backend URL.
Request3(id, serialize, withhold) ==
    /\ rev = 3 /\ id \in Clients /\ sess[id].constructed
    /\ \E in \in InputsFor(FALSE,
                ~withhold /\ authorized3(sess[id]) /\ Expired3(sess[id]),
                FALSE) :
         LET m == request_resp3(M3(id), serialize, withhold, in, response)
         IN  Bounded3(m) /\ Commit3(m, "request")

\* vehicle.command(name) of a vehicle of the session.
VehicleCommand3(id) ==
    /\ rev = 3 /\ id \in Clients /\ sess[id].constructed
    /\ \E in \in InputsFor(~authorized3(sess[id]),
                authorized3(sess[id]) /\ Expired3(sess[id]), FALSE) :
         LET m == vehicle_command3([M3(id) EXCEPT !.name = "HONK_HORN"],
                                   "HONK_HORN", in, response)
         IN  Bounded3(m) /\ Commit3(m, "Vehicle.command")

\* product.command(name) of a product of the session.
ProductCommand3(id) ==
    /\ rev = 3 /\ id \in Clients /\ sess[id].constructed
    /\ \E in \in InputsFor(~authorized3(sess[id]),
                authorized3(sess[id]) /\ Expired3(sess[id]), FALSE) :
         LET m == product_command3([M3(id) EXCEPT !.name = "BACKUP_RESERVE"],
                                   in, response)
         IN  Bounded3(m) /\ Commit3(m, "Product.command")

\* The answers a call of api() for an endpoint with AUTH true may need.
ApiInputs3(id) ==
    InputsFor(~authorized3(sess[id]),
              authorized3(sess[id]) /\ Expired3(sess[id]), FALSE)

\* tesla.vehicle_list(), lines 375-378: the application keeps one of the
\* Vehicle objects (Vehicle.__init__, lines 411-415).
VehicleList3(id) ==
    /\ rev = 3 /\ id \in Clients /\ sess[id].constructed
    /\ \E in \in ApiInputs3(id), resp \in {OkResponse, ErrorResponse},
          p \in ListedVehicles :
         LET m == api_resp3([M3(id) EXCEPT !.name = "PRODUCT_LIST"], in, resp)
         IN  /\ Bounded3(m) /\ Effect3(m, "vehicle_list")
             /\ vehicle' = IF m.raised # "none" THEN vehicle
                           ELSE [constructed |-> TRUE, fields |-> p,
                                 timestamp |-> now]
             /\ UNCHANGED <<pc, held, product, wake>>

\* tesla.battery_list(), lines 380-383: the application keeps one of the
\* Battery objects (Product.__init__, lines 739-741).
BatteryList3(id) ==
    /\ rev = 3 /\ id \in Clients /\ sess[id].constructed
    /\ \E in \in ApiInputs3(id), resp \in {OkResponse, ErrorResponse},
          p \in ListedSites :
         LET m == api_resp3([M3(id) EXCEPT !.name = "PRODUCT_LIST"], in, resp)
         IN  /\ Bounded3(m) /\ Effect3(m, "battery_list")
             /\ product' = IF m.raised # "none" THEN product
                           ELSE [constructed |-> TRUE, fields |-> p]
             /\ UNCHANGED <<pc, held, vehicle, wake>>

\* The detail request of an object: self.api(name)['response'] for update().
detail3(m, name, in, resp) ==
    Then(api_resp3([m EXCEPT !.name = name], in, resp),
         LAMBDA x : response_member(x))

\* vehicle.get_vehicle_summary(), lines 493-497, and
\* vehicle.get_vehicle_data(), lines 546-555.
GetVehicle3(id, name) ==
    /\ rev = 3 /\ id \in Clients /\ sess[id].constructed
    /\ vehicle.constructed
    /\ \E in \in ApiInputs3(id), resp \in DetailResponses(VehicleDetails) :
         LET m == detail3(M3(id), name, in, resp)
         IN  /\ Bounded3(m) /\ Effect3(m, "Vehicle.get")
             /\ vehicle' = IF m.raised # "none" THEN vehicle
                           ELSE [vehicle EXCEPT
                                    !.fields = dict_update(@,
                                        resp.body.envelope.fields),
                                    !.timestamp = now]
             /\ UNCHANGED <<pc, held, product, wake>>

\* product.get_site_info(), lines 748-751, and product.get_site_data(),
\* lines 753-756.
GetSite3(id, name) ==
    /\ rev = 3 /\ id \in Clients /\ sess[id].constructed
    /\ product.constructed
    /\ \E in \in ApiInputs3(id), resp \in DetailResponses(SiteDetails) :
         LET m == detail3(M3(id), name, in, resp)
         IN  /\ Bounded3(m) /\ Effect3(m, "Product.get")
             /\ product' = IF m.raised # "none" THEN product
                           ELSE [product EXCEPT
                                    !.fields = dict_update(@,
                                        resp.body.envelope.fields)]
             /\ UNCHANGED <<pc, held, vehicle, wake>>

\* logout() writes the cache, and the write can fail.
Logout3(id, ioOk) ==
    /\ rev = 3 /\ id \in Clients /\ sess[id].constructed
    /\ ioOk \/ authorized3(sess[id])
    /\ Commit3(logout3(M3(id), ioOk), "logout")

\* Revision 3 started on one of the cache files in caches, with a backend
\* that answers a request() with one of responses.
Init3For(n, caches, responses) ==
    /\ rev = 3
    /\ now = 0
    /\ srv = <<ExpiresIn, ExpiresIn>>
    /\ cache \in caches
    /\ response \in responses
    /\ ts = NewSession1(FALSE)
    /\ pc = [t \in Threads |-> "idle"]
    /\ call = [t \in Threads |-> NoCall]
    /\ nthr = n
    /\ sess = [id \in Sessions |-> Unborn]
    /\ saved = [i \in Ids |->
                    IF /\ i \in DOMAIN cache.doc /\ IsRecord(cache.doc[i])
                       /\ {"sso", "url"} \subseteq DOMAIN cache.doc[i]
                    THEN [token |-> cache.doc[i].sso, url |-> cache.doc[i].url]
                    ELSE NoSave]
    /\ nonce = 0
    /\ stale = {}
    /\ exchanged = [id \in Sessions |-> {}]
    /\ held = [id \in Sessions |-> EmptyDict]
    /\ NoObjects
    /\ ev = NoEvent

Init3With(caches, responses) == Init3For(1, caches, responses)

Init3On(caches) == Init3With(caches, {OkResponse})

Init3 == Init3On(InitCaches3)

Next3 ==
    \/ \E id \in Sessions, email \in Ids,
          url \in {SSO_BASE_URL, SSO_REGION_URL} : Ctor3(id, email, url)
    \/ \E id \in Sessions : FetchToken3(id)
    \/ \E id \in Sessions : RefreshToken3(id)
    \/ \E id \in Sessions, auth \in BOOLEAN : Api3(id, auth)
    \/ \E id \in Sessions, ioOk \in BOOLEAN : Logout3(id, ioOk)
    \/ Tick

\* Revision 3: sessions used one operation at a time.
SpecV3 == Init3 /\ [][Next3]_vars

\* Revision 3 started on any cache file, also one that the library did not
\* write or that an earlier revision wrote.
SpecV3Any == Init3On(InitCaches3 \cup BadCaches) /\ [][Next3]_vars

\* Revision 3: the logins of a session, started by fetch_token() or by the
\* application through authorization_url() and
\* fetch_token(authorization_response=...).
NextPkce ==
    \/ \E id \in Sessions, email \in Ids,
          url \in {SSO_BASE_URL, SSO_REGION_URL} : Ctor3(id, email, url)
    \/ \E id \in Sessions : AuthorizationUrl3(id)
    \/ \E id \in Sessions : FetchToken3(id)
    \/ \E id \in Sessions : FetchTokenWith3(id)
    \/ \E id \in Sessions, ioOk \in BOOLEAN : Logout3(id, ioOk)

SpecPkce == Init3 /\ [][NextPkce]_vars

\* Revision 3: one session built from a cache file with its token, and the
\* vehicle and the battery of its account with their detail requests.
NextObjects ==
    \/ \E url \in {SSO_BASE_URL, SSO_REGION_URL} : Ctor3(1, "A", url)
    \/ VehicleList3(1)
    \/ BatteryList3(1)
    \/ \E name \in {"VEHICLE_SUMMARY", "VEHICLE_DATA"} : GetVehicle3(1, name)
    \/ \E name \in {"SITE_CONFIG", "SITE_DATA"} : GetSite3(1, name)
    \/ Tick

InitObjects == Init3On({c \in InitCaches3 : "A" \in DOMAIN c.doc})

SpecObjects == InitObjects /\ [][NextObjects]_vars

\* Two session objects of different identities on one cache file, each in
\* a thread or process of its own: the _token_updater() that ends a login
\* is two steps, the load of line 319 and the dump of line 325, and the
\* steps of the two sessions interleave.
EmailOf(id) == IF id = 1 THEN "A" ELSE "B"

BoundedShared(m) ==
    Len(m.srv) <= 2 + 2 * MaxIssued /\ m.nonce <= 2 * MaxLogins

CtorShared(id, url) ==
    /\ pc[id] = "idle" /\ ~sess[id].constructed
    /\ Ctor3(id, EmailOf(id), url)

\* fetch_token() up to line 231: the token is granted and not saved yet.
ExchangeShared(id) ==
    /\ rev = 3 /\ id \in Clients /\ sess[id].constructed
    /\ pc[id] = "idle" /\ ~authorized3(sess[id])
    /\ \E in \in {i \in InputsFor(TRUE, FALSE, FALSE) : i.ioOk} :
         LET m == failed3(Then(Then(authorization_url3(M3(id), in),
                                    LAMBDA x : authenticate3(x, in)),
                               LAMBDA x : exchange3(x, in)))
         IN  /\ BoundedShared(m)
             /\ Effect3(m, "fetch_token")
             /\ pc' = [pc EXCEPT ![id] = IF m.raised = "none" THEN "save"
                                         ELSE "idle"]
             /\ UNCHANGED <<held, objects>>

\* line 233, _token_updater() up to line 321: the session loads the cache.
LoadShared(id) ==
    /\ rev = 3 /\ id \in Clients /\ pc[id] = "save"
    /\ LET m == failed3(load3(M3(id)))
       IN  /\ Effect3(m, "load")
           /\ pc' = [pc EXCEPT ![id] = IF m.raised = "none" THEN "loaded"
                                       ELSE "idle"]
           /\ held' = [held EXCEPT ![id] = cache_load(cache)]
           /\ UNCHANGED objects

\* lines 323-325: the session sets its entry in the document it loaded and
\* dumps the document.
DumpShared(id, ioOk) ==
    /\ rev = 3 /\ id \in Clients /\ pc[id] = "loaded"
    /\ Effect3(update3(M3(id), held[id], ioOk), "dump")
    /\ pc' = [pc EXCEPT ![id] = "idle"]
    /\ held' = [held EXCEPT ![id] = EmptyDict]
    /\ UNCHANGED objects

NextShared ==
    \/ \E id \in Sessions, url \in {SSO_BASE_URL, SSO_REGION_URL} :
          CtorShared(id, url)
    \/ \E id \in Sessions : ExchangeShared(id)
    \/ \E id \in Sessions : LoadShared(id)
    \/ \E id \in Sessions, ioOk \in BOOLEAN : DumpShared(id, ioOk)

InitShared == Init3For(2, InitCaches3, {OkResponse})

SpecShared == InitShared /\ [][NextShared]_vars

----------------------------------------------------------------------------
(* Revision 2: src/teslapy/teslapy.py                                      *)

\* A session object that has not been constructed yet.
Unborn2 ==
    [constructed |-> FALSE, email |-> "A", password |-> FALSE,
     passcode_getter |-> FALSE, token |-> EmptyDict, expires_at |-> 0,
     authorized |-> FALSE, bearer |-> 0]

\* The attributes after lines 34-49 of __init__.
NewSession2(email, pw, getter) ==
    [Unborn2 EXCEPT !.constructed = TRUE, !.email = email, !.password = pw,
                    !.passcode_getter = getter]

\* What the single sign-on service, the token endpoints and the cache file
\* answer during one login: the answer to the credentials POST, the list of
\* MFA factors, the passcode verification, the second authorize POST, the
\* code exchange, the JWT exchange, the cache write.
Inputs2 ==
    [cred : {"error", "invalid", "mfa", "found", "other"},
     factors : {"error", "none", "totp", "other", "many"},
     valid : {"valid", "invalid", "error"}, second : BOOLEAN, tok : BOOLEAN,
     exch : {"token", "error", "empty"}, ioOk : BOOLEAN]

\* The answers when nothing is asked.
NoLogin2 ==
    [cred |-> "found", factors |-> "none", valid |-> "valid", second |-> TRUE,
     tok |-> TRUE, exch |-> "token", ioOk |-> TRUE]

\* The login reaches the code exchange (line 139 does not raise).
Found2(in, getter) ==
    \/ in.cred = "found"
    \/ in.cred = "mfa" /\ in.factors = "totp" /\ getter
            /\ in.valid = "valid" /\ in.second

\* The answers of a login of a session with or without a passcode getter:
\* an answer that is never asked for is fixed.
LoginInputs2 ==
    [getter \in BOOLEAN |->
        { in \in Inputs2 :
            /\ in.cred # "mfa" => in.factors = "none"
            /\ ~(in.cred = "mfa" /\ in.factors = "totp" /\ getter)
                    => in.valid = "valid"
            /\ ~(in.cred = "mfa" /\ in.factors = "totp" /\ getter
                    /\ in.valid = "valid")
                    => in.second
            /\ ~Found2(in, getter) => in.tok
            /\ ~(Found2(in, getter) /\ in.tok) => in.exch = "token"
            /\ ~(Found2(in, getter) /\ in.tok /\ in.exch = "token")
                    => in.ioOk }]

\* A request of the OAuth2Session that fetch_token() builds for one login.
send2(m, kind, to, verifier) ==
    [m EXCEPT !.sent = Append(@,
        [kind |-> kind, auth |-> FALSE, to |-> to, verifier |-> verifier,
         bearer |-> 0, authorized |-> m.ss.authorized, expired |-> FALSE,
         stale |-> FALSE, inflight |-> FALSE])]

\* The owner-api answers the JWT exchange with a new token (lines 147-153).
grant2(m) ==
    [m EXCEPT !.srv = Append(@, now + ExpiresIn),
              !.ss.token = Token(Len(m.srv) + 1, now),
              !.ss.expires_at = now + ExpiresIn,
              !.ss.authorized = TRUE]

\* The write branch of _token_updater(), lines 165-173.
save2(m, ioOk) ==
    IF ~IsMapping(m.c) THEN raise3([m EXCEPT !.loads = @ + 1], "TypeError")
    ELSE
    [m EXCEPT
        !.loads = @ + 1, !.dumps = @ + 1,
        !.c = cache_dump(@, CachePut(cache_load(m.c), m.ss.email, m.ss.token),
                         ioOk),
        !.saved = IF ~ioOk THEN @
                  ELSE [@ EXCEPT ![m.ss.email] =
                          [token |-> m.ss.token, url |-> SSO_BASE_URL]]]

\* lines 98-104: the form is fetched and posted with the credentials.
post_credentials2(m, in) ==
    LET m1 == send2(send2([m EXCEPT !.nonce = @ + 1], "form", SSO_BASE_URL,
                          0),
                    "authorize", SSO_BASE_URL, 0)
    IN  CASE in.cred = "error" -> raise3(m1, "HTTPError")
          [] in.cred = "invalid" -> raise3(m1, "ValueError")
          [] OTHER -> m1

\* lines 124-129: the passcode getter is called and the passcode posted.
verify2(m, in) ==
    send2([m EXCEPT !.callbacks = @ + 1, !.valid = in.valid], "verify",
          SSO_BASE_URL, 0)

\* The same with the error member of the answer not looked at.
passcode2_ignores_error(m, in) ==
    IF ~m.ss.passcode_getter THEN raise3(m, "ValueError")
    ELSE IF in.valid = "invalid" THEN raise3(verify2(m, in), "ValueError")
    ELSE send2(verify2(m, in), "authorize", SSO_BASE_URL, 0)

\* lines 122-136: the passcode is asked for and verified; the answer has
\* an error member, or data.valid false, or data.valid true.
passcode2(m, in) ==
    IF ~m.ss.passcode_getter THEN raise3(m, "ValueError")
    ELSE IF in.valid # "valid" THEN raise3(verify2(m, in), "ValueError")
    ELSE send2(verify2(m, in), "authorize", SSO_BASE_URL, 0)

\* The same with the first of several factors taken.
factors2_takes_first(m, in) ==
    CASE in.factors = "error" -> raise3(m, "HTTPError")
      [] in.factors = "none" -> m
      [] in.factors \in {"totp", "many"} -> passcode2(m, in)
      [] OTHER -> raise3(m, "NotImplementedError")

\* The same with a single factor of any type taken.
factors2_any_type(m, in) ==
    CASE in.factors = "error" -> raise3(m, "HTTPError")
      [] in.factors = "none" -> m
      [] in.factors \in {"totp", "other"} -> passcode2(m, in)
      [] OTHER -> raise3(m, "NotImplementedError")

\* lines 116-138: the list of factors is empty, holds one factor of type
\* token:software or of another type, or holds several factors.
factors2(m, in) ==
    CASE in.factors = "error" -> raise3(m, "HTTPError")
      [] in.factors = "none" -> m
      [] in.factors = "totp" -> passcode2(m, in)
      [] OTHER -> raise3(m, "NotImplementedError")

\* lines 107-138: the MFA factors of a login answered with status 200.
mfa2(m, in) ==
    IF in.cred = "mfa"
    THEN factors2([send2(m, "factors", SSO_BASE_URL, 0)
                        EXCEPT !.factors = in.factors], in)
    ELSE m

\* lines 138-143: the authorization code is exchanged for an SSO token.
code2(m, in) ==
    IF ~Found2(in, m.ss.passcode_getter) THEN raise3(m, "RuntimeError")
    ELSE IF ~in.tok
    THEN raise3(send2(m, "token", SSO_BASE_URL, m.nonce), "OAuth2Error")
    ELSE send2(m, "token", SSO_BASE_URL, m.nonce)

\* lines 144-155: the SSO token is exchanged for an owner-api token. The
\* answer is an error status, a token, or a JSON object without the members
\* of a token: line 150 assigns it to self.token before line 151 reads
\* created_at.
exchange2(m, in) ==
    LET m1 == send2(m, "exchange", "owner-api", 0)
    IN  CASE in.exch = "error" -> raise3(m1, "HTTPError")
          [] in.exch = "empty" ->
                raise3([m1 EXCEPT !.ss.token = EmptyDict], "KeyError")
          [] OTHER -> save2([grant2(m1) EXCEPT !.login = "ok"], in.ioOk)

failed2(m) == IF m.raised # "none" THEN [m EXCEPT !.login = "failed"] ELSE m

\* fetch_token(), lines 84-155, for a session that is not authorized.
sso2(m, in) ==
    failed2(Then(Then(Then(post_credentials2(m, in),
                           LAMBDA x : mfa2(x, in)),
                      LAMBDA x : code2(x, in)),
                 LAMBDA x : exchange2(x, in)))

\* The same without the test of the password.
login2_any_password(m, in) ==
    sso2([m EXCEPT !.password = m.ss.password], in)

login2(m, in) ==
    IF ~m.ss.password
    THEN failed2(raise3([m EXCEPT !.password = FALSE], "ValueError"))
    ELSE sso2([m EXCEPT !.password = TRUE], in)

\* fetch_token(), lines 78-155.
fetch_token2(m, in) == IF m.ss.authorized THEN m ELSE login2(m, in)

\* The cached entry has the members that lines 177-178 read.
HasExpiry(tok) == {"created_at", "expires_in"} \subseteq DOMAIN tok

\* The read branch of _token_updater(), lines 174-187, for a cached token.
restore2(m, tok, in) ==
    IF ~IsRecord(tok) THEN raise3(m, "TypeError")
    ELSE IF ~HasExpiry(tok) THEN raise3(m, "KeyError")
    ELSE IF Expired1(tok.created_at + tok.expires_in)
    THEN fetch_token2(
            [m EXCEPT !.ss.token = tok,
                      !.ss.expires_at = tok.created_at + tok.expires_in], in)
    ELSE [m EXCEPT !.ss.token = tok,
                   !.ss.expires_at = tok.created_at + tok.expires_in,
                   !.ss.authorized = TRUE]

\* _token_updater(), lines 157-187.
token_updater2(m, in) ==
    IF m.ss.authorized THEN save2(m, in.ioOk)
    ELSE IF m.c.state = "number"
    THEN raise3([m EXCEPT !.loads = @ + 1], "TypeError")
    ELSE IF m.ss.email \in DOMAIN cache_load(m.c)
    THEN restore2([m EXCEPT !.loads = @ + 1], cache_load(m.c)[m.ss.email], in)
    ELSE [m EXCEPT !.loads = @ + 1]

\* lines 57-63 of request(): an expired token makes the session log in
\* again, and the access token is put into the session's headers.
bearer2(m, in) ==
    IF ~m.ss.authorized THEN m
    ELSE Then(IF Expired1(m.ss.expires_at)
              THEN fetch_token2([m EXCEPT !.ss.authorized = FALSE], in)
              ELSE m,
              LAMBDA x : [x EXCEPT !.ss.bearer = x.ss.token.access_token])

\* lines 64-66 of request(): the request is sent.
msg_api2(m, auth) ==
    LET r == [kind |-> "api", auth |-> auth, to |-> "owner-api",
              verifier |-> 0, bearer |-> m.ss.bearer,
              authorized |-> m.ss.authorized,
              expired |-> ServerExpired(m.srv, m.ss.bearer),
              stale |-> FALSE, inflight |-> FALSE]
    IN  [m EXCEPT !.sent = Append(@, r)]

\* lines 64-76 of request(): the request is sent and the status checked.
send_api2(m, auth, status) ==
    handle_response(msg_api2(m, auth),
                    IF status THEN OkResponse ELSE ErrorResponse, TRUE)

\* request(), lines 54-76.
request2(m, auth, in, status) ==
    Then(bearer2(m, in), LAMBDA x : send_api2(x, auth, status))

\* request(method, uri), lines 54-76, answered with resp.
request_resp2(m, in, resp) ==
    Then(bearer2(m, in),
         LAMBDA x : handle_response(msg_api2(x, x.ss.authorized), resp, TRUE))

\* api(), lines 189-224, for an endpoint whose AUTH is auth.
api2(m, auth, in, status) ==
    Then(IF auth /\ ~m.ss.authorized THEN fetch_token2(m, in) ELSE m,
         LAMBDA x : request2(x, auth, in, status))

\* api(), lines 189-224, in the same order: the lookup of the name, the
\* login of an unauthorized session, the substitution of the path
\* variables, the request.
api_named2(m, name, path_vars, in, status) ==
    LET endpoint == lookup(name)
    IN  IF endpoint = NoEndpoint THEN raise_about3(m, name)
        ELSE Then(IF endpoint.AUTH /\ ~m.ss.authorized
                  THEN fetch_token2(m, in) ELSE m,
             LAMBDA x : Then(format3(x, endpoint, path_vars),
             LAMBDA y : request2(y, endpoint.AUTH, in, status)))

\* The answers that matter to an operation of session s that may log in.
InputsFor2(s, login) ==
    IF login /\ s.password THEN LoginInputs2[s.passcode_getter]
    ELSE {NoLogin2}

\* Tesla(email, password, passcode_getter): __init__, lines 33-50. An
\* exception of the login of an expired cached token leaves no object.
Ctor2(id, email, pw, getter) ==
    /\ rev = 2 /\ id \in Clients
    /\ LET s == NewSession2(email, pw, getter)
           doc == cache_load(cache)
           exp == email \in DOMAIN doc /\ HasExpiry(doc[email])
                    /\ Expired1(doc[email].created_at + doc[email].expires_in)
       IN  \E in \in InputsFor2(s, exp) :
             LET m == token_updater2([M3(id) EXCEPT !.ss = s], in)
             IN  /\ Bounded3(m)
                 /\ Commit3(IF m.raised = "none" THEN m
                            ELSE [m EXCEPT !.ss = sess[id]], "ctor")

FetchToken2(id) ==
    /\ rev = 2 /\ id \in Clients /\ sess[id].constructed
    /\ \E in \in InputsFor2(sess[id], ~sess[id].authorized) :
         LET m == fetch_token2(M3(id), in)
         IN  Bounded3(m) /\ Commit3(m, "fetch_token")

\* tesla.api(name) for an endpoint with AUTH = auth.
Api2(id, auth, status) ==
    /\ rev = 2 /\ id \in Clients /\ sess[id].constructed
    /\ \E in \in InputsFor2(sess[id],
                IF sess[id].authorized THEN Expired1(sess[id].expires_at)
                ELSE auth) :
         LET m == api2(M3(id), auth, in, status)
         IN  /\ status \/ (m.sent # <<>> /\ m.sent[Len(m.sent)].kind = "api")
             /\ Bounded3(m) /\ Commit3(m, "api")

\* tesla.api(name, path_vars) for any name and any path variables.
ApiNamed2(id, name, path_vars, status) ==
    /\ rev = 2 /\ id \in Clients /\ sess[id].constructed
    /\ LET e    == lookup(name)
           auth == e # NoEndpoint /\ e.AUTH
       IN  \E in \in InputsFor2(sess[id],
                     IF sess[id].authorized
                     THEN Expired1(sess[id].expires_at)
                          /\ e # NoEndpoint /\ e.vars \subseteq path_vars
                     ELSE auth) :
             LET m == api_named2([M3(id) EXCEPT !.name = name,
                                                !.path_vars = path_vars],
                                 name, path_vars, in, status)
             IN  /\ status \/ (m.sent # <<>>
                                /\ m.sent[Len(m.sent)].kind = "api")
                 /\ Bounded3(m) /\ Commit3(m, "api")

\* api(), lines 210-224, for an endpoint that requires authorization, with
\* its path variables, answered with resp.
api_resp2(m, in, resp) ==
    Then(IF ~m.ss.authorized THEN fetch_token2(m, in) ELSE m,
         LAMBDA x : request_resp2(x, in, resp))

\* Vehicle.command(name), lines 386-391.
vehicle_command2(m, in, resp) ==
    Then(api_resp2(m, in, resp), LAMBDA x : vehicle_envelope2(x))

\* vehicle.command(name) of a vehicle of the session.
VehicleCommand2(id) ==
    /\ rev = 2 /\ id \in Clients /\ sess[id].constructed
    /\ \E in \in InputsFor2(sess[id],
                IF sess[id].authorized THEN Expired1(sess[id].expires_at)
                ELSE TRUE) :
         LET m == vehicle_command2([M3(id) EXCEPT !.name = "HONK_HORN"],
                                   in, response)
         IN  Bounded3(m) /\ Commit3(m, "Vehicle.command")

\* tesla.request(method, uri).
Request2(id) ==
    /\ rev = 2 /\ id \in Clients /\ sess[id].constructed
    /\ \E in \in InputsFor2(sess[id],
                sess[id].authorized /\ Expired1(sess[id].expires_at)) :
         LET m == request_resp2(M3(id), in, response)
         IN  Bounded3(m) /\ Commit3(m, "request")

\* The answers a call of api() for an endpoint with AUTH true may need.
ApiInputs2(id) ==
    InputsFor2(sess[id],
               IF sess[id].authorized THEN Expired1(sess[id].expires_at)
               ELSE TRUE)

\* tesla.vehicle_list(), lines 226-228: the application keeps one of the
\* Vehicle objects (Vehicle.__init__, lines 262-264).
VehicleList2(id) ==
    /\ rev = 2 /\ id \in Clients /\ sess[id].constructed
    /\ \E in \in ApiInputs2(id), resp \in {OkResponse, ErrorResponse},
          p \in ListedVehicles :
         LET m == api_resp2([M3(id) EXCEPT !.name = "VEHICLE_LIST"], in, resp)
         IN  /\ Bounded3(m) /\ Effect3(m, "vehicle_list")
             /\ vehicle' = IF m.raised # "none" THEN vehicle
                           ELSE [constructed |-> TRUE, fields |-> p,
                                 timestamp |-> 0]
             /\ UNCHANGED <<pc, held, product, wake>>

\* Vehicle.get_vehicle_summary(), lines 270-273, up to update().
detail2(m, name, in, resp) ==
    Then(api_resp2([m EXCEPT !.name = name], in, resp),
         LAMBDA x : response_member(x))

\* The timeouts, intervals and backoff factors a caller passes: whole
\* numbers, so that int(interval) is interval.
MaxWait == 1

\* sync_wake_up() has ended; the exception of a request shows in the step.
Ended(w, how) == [w EXCEPT !.at = "done", !.result = how]

\* The same with the deadline never looked at.
timed_out2_never(w) == FALSE

\* line 287: start_time + timeout < time.time().
timed_out2(w) == w.start_time + w.timeout < now

\* vehicle.sync_wake_up(timeout, interval, backoff), lines 275-281: an
\* online vehicle is left alone; otherwise WAKE_UP is sent, the time is
\* taken and the loop is entered. Calls are started up to MaxTime; a call
\* that has started runs to its end.
WakeCall2(id, timeout, interval, backoff) ==
    /\ rev = 2 /\ id \in Clients /\ sess[id].constructed
    /\ vehicle.constructed /\ wake.at \in {"idle", "done"}
    /\ now <= MaxTime
    /\ LET w == [NoWake EXCEPT !.timeout = timeout, !.interval = interval,
                               !.backoff = backoff,
                               !.was = vehicle.fields["state"]]
       IN  IF vehicle.fields["state"] = "online"
           THEN /\ wake' = Ended(w, "returned")
                /\ Effect3(M3(id), "sync_wake_up")
                /\ UNCHANGED <<pc, held, vehicle, product>>
           ELSE \E in \in ApiInputs2(id),
                   resp \in {OkResponse, ErrorResponse} :
                  LET m == api_resp2([M3(id) EXCEPT !.name = "WAKE_UP"],
                                     in, resp)
                      sent == IF \E i \in DOMAIN m.sent :
                                    m.sent[i].kind = "api"
                              THEN 1 ELSE 0
                  IN  /\ Bounded3(m) /\ Effect3(m, "sync_wake_up")
                      /\ wake' = IF m.raised # "none"
                                 THEN Ended([w EXCEPT !.wakes = sent],
                                            "request failed")
                                 ELSE [w EXCEPT !.at = "sleep",
                                                !.wakes = sent,
                                                !.start_time = now]
                      /\ UNCHANGED <<pc, held, vehicle, product>>

\* line 283: time.sleep(int(interval)), where the intervals of the model are
\* whole numbers, which int() leaves as they are; elapsed is the time the
\* loop takes beyond the sleep.
WakeSleep2(id, elapsed) ==
    /\ rev = 2 /\ id \in Clients /\ wake.at = "sleep"
    /\ now' = now + wake.interval + elapsed
    /\ wake' = [wake EXCEPT !.at = "poll"]
    /\ ev' = [NoEvent EXCEPT !.op = "sleep", !.t = id]
    /\ UNCHANGED <<rev, srv, cache, response, ts, pc, call, nthr, sess, saved,
                   nonce, stale, exchanged, held, vehicle, product>>

\* What the servers will answer to the requests of the state fetch that
\* the loop is about to make.
WakeAnswer2(id) ==
    /\ rev = 2 /\ id \in Clients /\ wake.at = "poll" /\ ~wake.answered
    /\ \E in \in ApiInputs2(id), resp \in DetailResponses(StateDetails) :
         wake' = [wake EXCEPT !.answered = TRUE, !.in = in, !.resp = resp]
    /\ ev' = [NoEvent EXCEPT !.op = "answer", !.t = id]
    /\ UNCHANGED <<rev, now, srv, cache, response, ts, pc, call, nthr, sess,
                   saved, nonce, stale, exchanged, held, vehicle, product>>

\* lines 285-290 and the loop test of line 281: the state is fetched, the
\* deadline is looked at, the interval grows, and the loop ends when the
\* vehicle is online.
WakePoll2(id) ==
    /\ rev = 2 /\ id \in Clients /\ wake.at = "poll" /\ wake.answered
    /\ LET resp == wake.resp
           w == [wake EXCEPT !.answered = FALSE, !.in = EmptyDict,
                             !.resp = NoResponse]
           m == detail2(M3(id), "VEHICLE_SUMMARY", wake.in, resp)
           v == [vehicle EXCEPT
                   !.fields = dict_update(@, resp.body.envelope.fields)]
       IN    /\ Effect3(m, "Vehicle.get")
             /\ vehicle' = IF m.raised # "none" THEN vehicle ELSE v
             /\ wake' =
                  IF m.raised # "none" THEN Ended(w, "request failed")
                  ELSE IF timed_out2(w) THEN Ended(w, "VehicleError")
                  ELSE IF v.fields["state"] = "online"
                  THEN Ended([w EXCEPT !.interval = @ * w.backoff],
                             "returned")
                  ELSE [w EXCEPT !.at = "sleep",
                                 !.interval = @ * w.backoff]
             /\ UNCHANGED <<pc, held, product>>

\* Revision 2 started on one of the cache files in caches, with a backend
\* that answers a request() with one of responses.
Init2With(caches, responses) ==
    /\ rev = 2
    /\ now = 0
    /\ srv = <<ExpiresIn, ExpiresIn>>
    /\ cache \in caches
    /\ response \in responses
    /\ ts = NewSession1(FALSE)
    /\ pc = [t \in Threads |-> "idle"]
    /\ call = [t \in Threads |-> NoCall]
    /\ nthr = 1
    /\ sess = [id \in Sessions |-> Unborn2]
    /\ saved = [i \in Ids |->
                    IF i \in DOMAIN cache.doc /\ HasExpiry(cache.doc[i])
                    THEN [token |-> cache.doc[i], url |-> SSO_BASE_URL]
                    ELSE NoSave]
    /\ nonce = 0
    /\ stale = {}
    /\ exchanged = [id \in Sessions |-> {}]
    /\ held = [id \in Sessions |-> EmptyDict]
    /\ NoObjects
    /\ ev = NoEvent

Init2On(caches) == Init2With(caches, {OkResponse})

Init2 == Init2On(InitCaches)

Next2 ==
    \/ \E id \in Sessions, email \in Ids, pw \in BOOLEAN,
          getter \in BOOLEAN : Ctor2(id, email, pw, getter)
    \/ \E id \in Sessions : FetchToken2(id)
    \/ \E id \in Sessions, auth \in BOOLEAN, status \in BOOLEAN :
            Api2(id, auth, status)
    \/ Tick

\* Revision 2: sessions used one operation at a time.
SpecV2 == Init2 /\ [][Next2]_vars

\* Revision 2: a session with its password, the vehicle of its account and
\* the sync_wake_up() calls on it.
NoWakeRunning == wake.at \in {"idle", "done"}

NextWake ==
    \/ NoWakeRunning /\ \E pw \in BOOLEAN : Ctor2(1, "A", pw, FALSE)
    \/ wake.at = "idle" /\ VehicleList2(1)
    \/ \E timeout \in 0..MaxWait, interval \in 0..MaxWait,
          backoff \in 1..(MaxWait + 1) :
            WakeCall2(1, timeout, interval, backoff)
    \/ \E elapsed \in {0, 1} : WakeSleep2(1, elapsed)
    \/ WakeAnswer2(1)
    \/ WakePoll2(1)

InitWake == Init2On({c \in InitCaches : "A" \in DOMAIN c.doc})

\* The thread that runs sync_wake_up() goes on: its sleeps end, and time
\* does not stand still for ever, so of the sleeps of a loop that goes on
\* some take time; the request that follows a sleep is made and answered
\* (get_vehicle_summary() returns or raises), which is the fairness of
\* WakeAnswer2 and WakePoll2 together, the only steps of a pending request.
SpecWake ==
    /\ InitWake /\ [][NextWake]_vars
    /\ WF_vars(\E elapsed \in {0, 1} : WakeSleep2(1, elapsed))
    /\ SF_vars(WakeSleep2(1, 1))
    /\ (wake.at = "poll") ~> (wake.at # "poll")

\* Revisions 2 and 3, for what the two have in common.
Init23 == Init2 \/ Init3

Next23 == Next2 \/ Next3

SpecV23 == Init23 /\ [][Next23]_vars

\* Revisions 2 and 3 started on any cache file, also one that the library
\* did not write.
Init23Any ==
    Init2On(InitCaches \cup BadCaches) \/ Init3On(InitCaches3 \cup BadFiles)

SpecV23Any == Init23Any /\ [][Next23]_vars

\* Revisions 2 and 3: sessions built from the cache file and then used
\* through api() alone, with any endpoint name and any path variables.
NextApi ==
    \/ \E id \in Sessions, email \in Ids, pw \in BOOLEAN,
          getter \in BOOLEAN : Ctor2(id, email, pw, getter)
    \/ \E id \in Sessions, name \in Names, path_vars \in PathVars,
          status \in BOOLEAN : ApiNamed2(id, name, path_vars, status)
    \/ \E id \in Sessions, email \in Ids,
          url \in {SSO_BASE_URL, SSO_REGION_URL} : Ctor3(id, email, url)
    \/ \E id \in Sessions, name \in Names, path_vars \in PathVars :
            ApiNamed3(id, name, path_vars)
    \/ Tick

SpecApi == Init23 /\ [][NextApi]_vars

\* Revisions 2 and 3: sessions built from the cache file and then used
\* through request() alone, against a backend that gives one of the
\* responses.
NextRequest ==
    \/ \E id \in Sessions, email \in Ids, pw \in BOOLEAN,
          getter \in BOOLEAN : Ctor2(id, email, pw, getter)
    \/ \E id \in Sessions : Request2(id)
    \/ \E id \in Sessions, email \in Ids,
          url \in {SSO_BASE_URL, SSO_REGION_URL} : Ctor3(id, email, url)
    \/ \E id \in Sessions, serialize \in BOOLEAN, withhold \in BOOLEAN :
            Request3(id, serialize, withhold)

InitRequest ==
    Init2With(InitCaches, Responses3) \/ Init3With(InitCaches3, Responses3)

SpecRequest == InitRequest /\ [][NextRequest]_vars

\* Revisions 2 and 3: sessions built from the cache file and then used
\* through the commands of a vehicle or a product, against a backend that
\* gives one of the answers to a command.
NextCommand ==
    \/ \E id \in Sessions, email \in Ids, pw \in BOOLEAN,
          getter \in BOOLEAN : Ctor2(id, email, pw, getter)
    \/ \E id \in Sessions : VehicleCommand2(id)
    \/ \E id \in Sessions, email \in Ids,
          url \in {SSO_BASE_URL, SSO_REGION_URL} : Ctor3(id, email, url)
    \/ \E id \in Sessions : VehicleCommand3(id)
    \/ \E id \in Sessions : ProductCommand3(id)

InitCommand ==
    \/ Init2With(InitCaches, CommandResponses)
    \/ Init3With(InitCaches3, CommandResponses)

SpecCommand == InitCommand /\ [][NextCommand]_vars

\* The same for revision 3 alone.
NextApi3 ==
    \/ \E id \in Sessions, email \in Ids,
          url \in {SSO_BASE_URL, SSO_REGION_URL} : Ctor3(id, email, url)
    \/ \E id \in Sessions, name \in Names, path_vars \in PathVars :
            ApiNamed3(id, name, path_vars)
    \/ Tick

SpecApi3 == Init3 /\ [][NextApi3]_vars

----------------------------------------------------------------------------
(* Claims                                                                  *)

\* The backend requests (not the token requests) sent by the last step.
ApiSent == {ev.sent[i] : i \in {j \in DOMAIN ev.sent : ev.sent[j].kind = "api"}}

\* C1: once a renewal triggered by expiry has failed (the refresh request
\* raised or its response had no access_token), no backend request of the
\* session carries the token whose renewal failed.
C1_NoStaleTokenAfterFailedRenewal == \A r \in ApiSent : ~r.stale

\* C2: a backend request sent by an authorized session never carries an
\* access token that is past its expiry: the renewal has completed before the
\* request is sent.
C2_ExpiredTokenRenewedBeforeSend ==
    \A r \in ApiSent : r.authorized => ~r.expired

\* C3: while one thread is inside refresh_token(), waiting for the refresh
\* response, no other thread sends a backend request with the expired token.
C3_NoExpiredTokenWhileRefreshInFlight ==
    \A r \in ApiSent : r.inflight => ~r.expired

\* C4: a request for an endpoint with AUTH true is sent only by an authorized
\* session.
C4_AuthEndpointOnlyWhenAuthorized ==
    \A r \in ApiSent : r.auth => r.authorized

\* The session is authorized, in the terms of its revision.
IsAuthorized(s) == IF rev = 3 THEN authorized3(s) ELSE s.authorized

\* The operations of a session after its construction.
SessionOps == {"fetch_token", "refresh_token", "logout", "api"}

\* C5: fetch_token() on a session that is already authorized sends nothing,
\* calls neither the authenticator nor the passcode getter, neither loads nor
\* writes the cache, and leaves the session (token, code verifier, SSO base
\* URL), the cache and the verifier source as they were.
C5_FetchTokenOnAuthorizedIsNoOp ==
    [][\A id \in Sessions :
         (ev'.op = "fetch_token" /\ ev'.t = id /\ IsAuthorized(sess[id]))
            => /\ sess' = sess /\ cache' = cache /\ nonce' = nonce
               /\ ev'.sent = <<>> /\ ev'.callbacks = 0
               /\ ev'.loads = 0 /\ ev'.dumps = 0
               /\ ev'.raised = "none"]_vars

\* A fetch_token() call has returned on a session that was authorized.
C5_Witness ==
    /\ ev.op = "fetch_token" /\ ev.login = "none" /\ ev.raised = "none"
    /\ IsAuthorized(sess[ev.t])

SavedExpired(tok) ==
    LET at == IF "expires_at" \in DOMAIN tok THEN tok.expires_at
              ELSE tok.created_at + tok.expires_in
    IN  0 < at /\ at < now

\* C7: a session constructed for an identity whose last saved token has not
\* expired is authorized, holds the saved token and the SSO base URL of the
\* saving session, and has sent nothing.
C7_CacheRoundTrip ==
    [][\A id \in Sessions, e \in Ids :
         (/\ ev'.op = "ctor" /\ ev'.t = id /\ ev'.raised = "none"
          /\ sess'[id].email = e
          /\ saved[e] # NoSave /\ ~SavedExpired(saved[e].token))
         => /\ IsAuthorized(sess'[id])
            /\ sess'[id].token = saved[e].token
            /\ rev = 3 => sess'[id].sso_base_url = saved[e].url
            /\ ev'.sent = <<>>]_vars

\* A session was constructed on a cache that holds a token saved during the
\* run at the regional SSO URL.
C7_Witness ==
    /\ rev = 3 /\ ev.op = "ctor"
    /\ saved[sess[ev.t].email] # NoSave
    /\ saved[sess[ev.t].email].token.access_token > 2
    /\ saved[sess[ev.t].email].url = SSO_REGION_URL
    /\ ~SavedExpired(saved[sess[ev.t].email].token)
    /\ authorized3(sess[ev.t])

\* C8: after logout() on an authorized session the session is not authorized
\* and the cache entry of its identity holds no token.
C8_LogoutClearsMemoryAndCache ==
    (ev.op = "logout" /\ ev.dumps = 1)
        => /\ ~authorized3(sess[ev.t])
           /\ sess[ev.t].email \in DOMAIN cache.doc
                => cache.doc[sess[ev.t].email].sso = EmptyDict

\* C9: the cache dumper is invoked only in an operation whose login or
\* renewal succeeded or that is a logout; a fetch_token() or refresh_token()
\* that raises, and a construction that finds no cached token, do not invoke
\* it and leave the cache as it was.
C9_CacheWrittenOnlyAfterSuccess ==
    [][/\ ev'.dumps >= 1
            => ev'.login = "ok" \/ ev'.refresh = "ok" \/ ev'.op = "logout"
       /\ (\/ ev'.op \in {"fetch_token", "refresh_token"}
                /\ ev'.raised # "none"
           \/ ev'.op = "ctor" /\ ~authorized3(sess'[ev'.t]))
            => ev'.dumps = 0 /\ cache' = cache]_vars

\* A login has failed at the token endpoint, after the authenticator
\* returned.
C9_Witness ==
    /\ ev.op = "fetch_token" /\ ev.raised = "OAuth2Error"
    /\ ev.callbacks = 1 /\ ev.dumps = 0

\* C10 as stated: the cache loader is invoked once in the construction, and
\* in no later operation.
C10_CacheReadOnlyAtConstruction ==
    /\ ev.op = "ctor" => ev.loads = 1 /\ ev.sent = <<>>
    /\ ev.op \in SessionOps => ev.loads = 0

\* C10 amended: the cache loader is invoked once in the construction, which
\* sends nothing; a later operation invokes it at most once, and only as
\* the load step of a save, after a successful login or renewal or in a
\* logout.
C10_CacheReadAtConstructionAndBeforeSave ==
    /\ ev.op = "ctor" => ev.loads = 1 /\ ev.sent = <<>>
    /\ ev.op \in SessionOps
        => /\ ev.loads <= 1
           /\ ev.loads = ev.dumps
           /\ ev.loads = 1
                => ev.login = "ok" \/ ev.refresh = "ok" \/ ev.op = "logout"

\* An api() call has renewed an expired token and saved it.
C10_Witness ==
    /\ ev.op = "api" /\ ev.refresh = "ok" /\ ev.loads = 1 /\ ev.dumps = 1

\* C11: the construction of a session raises nothing and sends nothing,
\* whatever the cache file holds.
C11_ConstructionNeverRaisesNorSends ==
    ev.op = "ctor" => ev.raised = "none" /\ ev.sent = <<>>

\* The last step was an api() call with a name that is not in the endpoints
\* file.
UnknownName == ev.op = "api" /\ ev.name \notin DOMAIN Endpoints

\* C12: an api() call with an unknown endpoint name raises a ValueError that
\* names it, sends nothing, calls no callback, and leaves the session and the
\* cache file as they were, whether or not the session is authorized.
C12_UnknownEndpointRaisesBeforeAnything ==
    [][UnknownName' =>
          /\ ev'.raised = "ValueError" /\ ev'.about = ev'.name
          /\ ev'.sent = <<>> /\ ev'.callbacks = 0
          /\ ev'.loads = 0 /\ ev'.dumps = 0
          /\ sess' = sess /\ cache' = cache]_vars

C12_Witness == UnknownName /\ ~IsAuthorized(sess[ev.t])

\* The last step was an api() call for a known endpoint whose URI has a
\* placeholder that the call did not pass.
MissingVariable ==
    /\ ev.op = "api" /\ ev.name \in DOMAIN Endpoints
    /\ ~(Endpoints[ev.name].vars \subseteq ev.path_vars)

\* C13: an api() call that lacks a path variable of the endpoint raises a
\* ValueError naming the variable and sends no request at all.
C13_MissingPathVariableSendsNothing ==
    MissingVariable =>
        /\ ev.raised = "ValueError"
        /\ ev.about \in Endpoints[ev.name].vars \ ev.path_vars
        /\ ev.sent = <<>>

\* The last step was a request() that received an error response.
ErrorResponded == ev.op = "request" /\ IsError(ev.resp.status)

\* C14: every response with a status in 400..599 makes request() raise an
\* HTTPError carrying that status, whatever the body is.
C14_ErrorStatusAlwaysHTTPError ==
    ErrorResponded => ev.raised = "HTTPError" /\ ev.status = ev.resp.status

\* The last step was a request() with serialization that received an error
\* response whose body is a JSON object.
ErrorWithObject ==
    /\ ErrorResponded /\ ev.raised = "HTTPError"
    /\ ev.resp.body.json = "object"

NonEmptyString(v) == v.type = "string" /\ v.s # <<>>

\* C15 as stated: the reason is the non-empty string values of the object,
\* in order, joined into one string.
C15_ReasonJoinsNonEmptyStrings ==
    ErrorWithObject /\ ev.serialize =>
        LET kept == SelectSeq(ev.resp.body.values, NonEmptyString)
        IN  ev.reason = join(<<".", " ">>, [i \in DOMAIN kept |-> kept[i].s])

\* A value that the reason keeps: a non-empty string or a number other
\* than zero.
KeptValue(v) == NonEmptyString(v) \/ (v.type = "number" /\ v.n # 0)

\* C15: the reason of the HTTPError raised for an error response with a JSON
\* object is the values that are non-empty strings or non-zero numbers, in
\* order, each as text with its leading and trailing periods removed,
\* joined by ". "; a body that is not JSON, or a call without
\* serialization, leaves the reason phrase of the response.
C15_ReasonJoinsTruthyValuesStripped ==
    ErrorResponded /\ ev.raised = "HTTPError" =>
        IF ErrorWithObject /\ ev.serialize
        THEN LET kept == SelectSeq(ev.resp.body.values, KeptValue)
             IN  ev.reason =
                    join(<<".", " ">>,
                         [i \in DOMAIN kept |-> strip(Str(kept[i]))])
        ELSE ev.reason = ev.resp.reason

\* An error response whose object holds an empty string, a non-empty
\* string and a number.
C15_Witness ==
    /\ ErrorWithObject /\ ev.serialize
    /\ \E i, j \in DOMAIN ev.resp.body.values :
          /\ NonEmptyString(ev.resp.body.values[i])
          /\ ev.resp.body.values[j].type = "string"
          /\ ev.resp.body.values[j].s = <<>>

\* The last step was a Vehicle.command() whose api() call returned the
\* envelope e.
Commanded(e) ==
    /\ ev.op = "Vehicle.command" /\ ev.resp.status = 200
    /\ ev.resp.body.envelope = e

\* C16: Vehicle.command() returns the result when the envelope has a true
\* result, and raises VehicleError carrying the envelope's reason when the
\* result is false; it never returns normally for a false result.
C16_CommandResultOrVehicleError ==
    \A e \in VehicleEnvelopes :
        Commanded(e) /\ e.response = "present" =>
            /\ e.result = "true" =>
                    ev.raised = "none" /\ ev.returned = "true"
            /\ e.result = "false" /\ e.reason # "missing" =>
                    ev.raised = "VehicleError" /\ ev.about = e.reason
            /\ e.result = "false" =>
                    ev.raised # "none" /\ ev.returned = "none"

\* A command of revision 2 was answered with a false result and a reason.
C16_Witness ==
    \E e \in VehicleEnvelopes :
        /\ Commanded(e) /\ rev = 2
        /\ e.result = "false" /\ e.reason = "not_supported"

\* The last step was a command whose api() call returned a dictionary
\* without the expected envelope.
NoEnvelopeReturned ==
    /\ ev.op \in {"Vehicle.command", "Product.command"}
    /\ ev.resp.status = 200
    /\ LET e == ev.resp.body.envelope
       IN  \/ e.response # "present"
           \/ ev.op = "Vehicle.command" /\ e.result = "missing"
           \/ ev.op = "Vehicle.command" /\ e.result = "false"
                    /\ e.reason = "missing"
           \/ ev.op = "Product.command" /\ e.code = "missing"

\* C17: a command on a response that lacks the expected envelope raises
\* the domain error, VehicleError or ProductError.
C17_MissingEnvelopeRaisesDomainError ==
    NoEnvelopeReturned =>
        ev.raised = IF ev.op = "Vehicle.command" THEN "VehicleError"
                    ELSE "ProductError"

\* The last step was an api() call whose backend request was answered with
\* an error status.
ApiRejected == ev.op = "api" /\ IsError(ev.resp.status)

\* Exactly one backend request among the requests sent, and it is the last.
SentOnceAtEnd(sent) ==
    /\ sent # <<>> /\ sent[Len(sent)].kind = "api"
    /\ \A i \in 1..(Len(sent) - 1) : sent[i].kind # "api"

\* C18: an api() call whose backend request is answered with an error status
\* ends with HTTPError, has sent the backend request once and nothing after
\* it, and leaves the session, the cache and the server exactly as the same
\* call leaves them when the answer is a success: the error response starts
\* no login, no renewal and no second request.
C18_RejectionTriggersNothing ==
    [][ApiRejected' =>
          /\ ev'.raised = "HTTPError"
          /\ SentOnceAtEnd(ev'.sent)
          /\ \E in \in Inputs3 :
                LET good == api_named3(M3(ev'.t), ev'.name, ev'.path_vars, in)
                IN  /\ in.status /\ good.raised = "none"
                    /\ good.sent = ev'.sent
                    /\ good.ss = sess'[ev'.t] /\ good.c = cache'
                    /\ good.srv = srv' /\ good.dumps = ev'.dumps
                    /\ good.callbacks = ev'.callbacks]_vars

\* An authorized session whose call was rejected after a renewal in the same
\* call.
C18_Witness ==
    ApiRejected /\ IsAuthorized(sess[ev.t]) /\ ev.refresh = "ok"

\* The kinds of the requests of a login, in the order they were sent.
LoginKinds(sent) ==
    LET login == SelectSeq(sent, LAMBDA r : r.kind # "api")
    IN  [i \in DOMAIN login |-> login[i].kind]

\* The requests of a login without and with a passcode.
LoginSteps ==
    {<<"form", "authorize", "token", "exchange">>,
     <<"form", "authorize", "factors", "verify", "authorize", "token",
       "exchange">>}

\* C19: in revision 2 a session becomes authorized, gets a new token or
\* writes the cache only in an operation whose login has sent the form
\* request, the credentials, the passcode verification when one is
\* demanded, the code exchange and the JWT exchange, in this order; a login
\* that fails ends with an exception, the session unauthorized, and the
\* token and the cache as they were.
C19_LoginOrderAndFailure ==
    [][rev' = 2 /\ ev'.op \in {"fetch_token", "api"} =>
          LET t == ev'.t
          IN  /\ ev'.login = "ok" =>
                    LoginKinds(ev'.sent) \in LoginSteps /\ sess'[t].authorized
              /\ \/ sess'[t].authorized /\ ~sess[t].authorized
                 \/ sess'[t].token # sess[t].token
                 \/ cache' # cache
                 \/ ev'.dumps > 0
                 => ev'.login = "ok"
              /\ ev'.login = "failed" =>
                    /\ ev'.raised # "none" /\ ~sess'[t].authorized
                    /\ sess'[t].token = sess[t].token /\ cache' = cache]_vars

\* The requests of the last step that went to the token endpoint.
TokenRequests(sent) ==
    {sent[i] : i \in {j \in DOMAIN sent : sent[j].kind \in {"token", "refresh"}}}

\* C20: in revision 3 a redirect answer to the region discovery makes the
\* redirected origin the SSO base URL of the session, and any other answer
\* leaves the URL as it was; every code exchange and every refresh goes to
\* the SSO base URL of the session; the cache record written by a login
\* holds that URL; and a session constructed on a cache record takes the URL
\* of the record.
C20_RegionAdoptedAndPersisted ==
    [][rev' = 3 /\ ev'.t \in Sessions =>
          LET t == ev'.t
              s == sess'[t]
          IN  /\ ev'.disc = "redirect" => s.sso_base_url = SSO_REGION_URL
              /\ ev'.disc # "redirect" /\ ev'.op # "ctor" =>
                    s.sso_base_url = sess[t].sso_base_url
              /\ \A r \in TokenRequests(ev'.sent) : r.to = s.sso_base_url
              /\ ev'.login = "ok" /\ cache' # cache =>
                    cache'.doc[s.email].url = s.sso_base_url
              /\ /\ ev'.op = "ctor" /\ ev'.raised = "none"
                 /\ s.email \in DOMAIN cache.doc
                 => s.sso_base_url = cache.doc[s.email].url]_vars

\* A login of a session on the default URL that was redirected, exchanged
\* its code at the redirected origin and saved the record.
C20_Witness ==
    /\ rev = 3 /\ ev.disc = "redirect" /\ ev.login = "ok"
    /\ ev.sent[1].kind = "discover" /\ ev.sent[1].to = SSO_BASE_URL
    /\ \E r \in TokenRequests(ev.sent) : r.to = SSO_REGION_URL
    /\ sess[ev.t].email \in DOMAIN cache.doc
    /\ cache.doc[sess[ev.t].email].url = SSO_REGION_URL

\* The token requests among the requests of a step.
TokenSent(sent) ==
    {sent[i] : i \in {j \in DOMAIN sent : sent[j].kind = "token"}}

\* C21: no code verifier is used in two authorization attempts of a
\* session: a token exchange of fetch_token() never carries a code verifier
\* that an earlier token exchange of the same session carried, whether the
\* attempt follows a failed one or a logout, and whether or not the caller
\* passed the authorization response.
C21_VerifierNeverReused ==
    [][\A r \in TokenSent(ev'.sent) :
          r.verifier # 0 => r.verifier \notin exchanged[ev'.t]]_vars

\* The members of a cache record and of the token in it.
RecordMembers(r) ==
    DOMAIN r \cup (IF "sso" \in DOMAIN r THEN DOMAIN r.sso ELSE {})

\* C22: once the token exchange of fetch_token() has completed, the session
\* no longer holds the code verifier of that attempt, and no record of the
\* cache contains a code verifier.
C22_VerifierDiscardedNeverPersisted ==
    /\ \A id \in Sessions :
         (ev.op = "fetch_token" /\ ev.t = id /\ TokenSent(ev.sent) # {})
            => sess[id].code_verifier = 0
    /\ \A i \in DOMAIN cache.doc :
         "code_verifier" \notin RecordMembers(cache.doc[i])

\* C23: in every state of a session, between its operations, authorized is
\* true exactly when the session holds a non-empty token.
C23_AuthorizedIffTokenHeld ==
    \A id \in Sessions :
        sess[id].constructed
            => (IsAuthorized(sess[id]) <=> sess[id].token # EmptyDict)

\* C24: whenever a session holds a token between operations (after a
\* login, after a refresh attempt whether it succeeded or failed, after a
\* cache load), its expires_at equals created_at + expires_in of the token
\* it holds.
C24_ExpiresAtIsCreatedPlusLifetime ==
    (ts.constructed /\ ts.authorized /\ \A t \in Threads : pc[t] = "idle")
        => ts.expires_at = ts.token.created_at + ts.token.expires_in

\* A login was started by a session that has no password.
LoginWithoutPassword(e) == e.login # "none" /\ ~e.password

\* C25: fetch_token() on an unauthorized session that has no password
\* raises a ValueError before any request is sent, any verifier drawn or
\* any callback called, and leaves the token and the cache as they were and
\* the session unauthorized; so do the logins that request() starts on an
\* expired token (after it has cleared authorized) and that the
\* constructor starts on an expired cached token (no object is built).
C25_NoPasswordFailsFast ==
    [][\A id \in Sessions :
         (rev = 2 /\ ev'.t = id /\ LoginWithoutPassword(ev'))
            => /\ ev'.raised = "ValueError" /\ ev'.login = "failed"
               /\ ev'.sent = <<>> /\ ev'.callbacks = 0 /\ ev'.dumps = 0
               /\ nonce' = nonce /\ srv' = srv
               /\ cache' = cache
               /\ sess'[id] = IF ev'.op = "ctor" THEN sess[id]
                              ELSE [sess[id] EXCEPT !.authorized = FALSE]]_vars

\* request() has found the token of a session without password expired.
C25_Witness ==
    /\ ev.op = "api" /\ LoginWithoutPassword(ev)
    /\ ev.raised = "ValueError"
    /\ sess[ev.t].token # EmptyDict /\ ~sess[ev.t].authorized

PasscodeAsked(e) == e.callbacks > 0

\* C27: during fetch_token() of revision 2 the passcode getter is called
\* only when exactly one factor is enrolled and it is of the TOTP type; when
\* the list of factors is empty or the single factor has another type, the
\* login ends with an error, the passcode getter is not called, no token
\* exchange is made and the session is unauthorized.
C27_PasscodeOnlyForSingleTotp ==
    /\ (rev = 2 /\ PasscodeAsked(ev)) => ev.factors = "totp"
    /\ ev.factors \in {"none", "other"}
        => /\ ev.login = "failed"
           /\ ev.sent[Len(ev.sent)].kind = "factors"
           /\ ev.raised = IF ev.factors = "none" THEN "RuntimeError"
                          ELSE "NotImplementedError"
           /\ ~PasscodeAsked(ev)
           /\ TokenSent(ev.sent) = {}
           /\ ev.op # "ctor" => ~sess[ev.t].authorized

C27_Witness ==
    /\ ev.op = "fetch_token" /\ ev.factors = "other"
    /\ ev.raised = "NotImplementedError"
    /\ sess[ev.t].passcode_getter /\ ~sess[ev.t].authorized

\* The requests of the given kinds among the requests of a step.
SentOf(sent, kinds) == SelectSeq(sent, LAMBDA r : r.kind \in kinds)

\* C28: when the MFA verification answers with valid false or with an
\* error member, fetch_token() raises a ValueError, has asked for the
\* passcode once and verified once, makes no token exchange, and leaves the
\* session unauthorized and the cache unchanged; no fetch_token() call asks
\* for the passcode more than once.
C28_RejectedPasscodeIsFatal ==
    [][/\ rev = 2 => ev'.callbacks <= 1
       /\ \A id \in Sessions :
            (ev'.t = id /\ ev'.valid \in {"invalid", "error"})
                => /\ ev'.raised = "ValueError" /\ ev'.login = "failed"
                   /\ ev'.callbacks = 1
                   /\ Len(SentOf(ev'.sent, {"verify"})) = 1
                   /\ SentOf(ev'.sent, {"token", "exchange"}) = <<>>
                   /\ ev'.sent[Len(ev'.sent)].kind = "verify"
                   /\ cache' = cache /\ ev'.dumps = 0
                   /\ ev'.op # "ctor" => ~sess'[id].authorized]_vars

C28_Witness ==
    /\ ev.op = "fetch_token" /\ ev.valid = "error"
    /\ ev.raised = "ValueError" /\ ev.callbacks = 1
    /\ ~sess[ev.t].authorized

\* C29: when the refresh grant triggered inside an api() call fails (the
\* server issues no token), the failure is raised to the caller of api(),
\* the backend request of the call is not sent, no second refresh is
\* attempted, and the held token and the cache are as before the call.
C29_RefreshFailurePropagates ==
    [][\A t \in Threads :
         (ev'.op = "refresh_response" /\ ev'.t = t /\ call[t].op = "api"
            /\ Len(srv') = Len(srv))
            => /\ ev'.raised # "none"
               /\ ev'.sent = <<>>
               /\ ts'.token = ts.token
               /\ cache' = cache]_vars

\* C30: no failure of persisting the token is swallowed: a fetch_token(),
\* refresh_token() or logout() that wrote the cache and completed normally
\* leaves the cache entry of the session's identity equal to the token the
\* session holds in memory.
C30_NormalCompletionMeansPersisted ==
    \A id \in Sessions :
        (ev.t = id /\ ev.op \in {"fetch_token", "refresh_token", "logout"}
            /\ ev.dumps > 0 /\ ev.raised = "none")
            => /\ sess[id].email \in DOMAIN cache.doc
               /\ cache.doc[sess[id].email].sso = sess[id].token

\* C31: when two sessions of different identities on one cache have both
\* become authorized and both have finished their saves, each with a dump
\* that succeeded, the cache document holds the entries of both identities,
\* in whatever order the loads and dumps of the two saves ran.
BothSaved ==
    \A id \in Sessions :
        /\ sess[id].constructed /\ authorized3(sess[id]) /\ pc[id] = "idle"
        /\ saved[EmailOf(id)].token = sess[id].token

C31_NoInterleavingLosesAnEntry ==
    BothSaved => \A id \in Sessions : EmailOf(id) \in DOMAIN cache.doc

\* C32: a detail fetch of a Vehicle or a Product (get_vehicle_summary,
\* get_vehicle_data, get_site_info, get_site_data) leaves the identity key
\* of the object (id_s, energy_site_id) as it was, whatever the response
\* contains, and a fetch that fails leaves every field of the object as it
\* was.
DetailFetched(e) == e.op \in {"Vehicle.get", "Product.get"}

C32_IdentityKeyNeverChanges ==
    [][DetailFetched(ev') =>
          /\ vehicle'.constructed
                => vehicle'.fields["id_s"] = vehicle.fields["id_s"]
          /\ product'.constructed
                => product'.fields["energy_site_id"]
                        = product.fields["energy_site_id"]
          /\ ev'.raised # "none"
                => vehicle' = vehicle /\ product' = product]_vars

\* C33: in revision 1 an api() call on an authorized session whose token
\* has expired issues exactly one refresh request, and the steps of the
\* call that follow (the answer to the refresh, the backend request, its
\* answer) issue none: the call goes from the refresh to the backend
\* request to its end and never back.
C33_OneRefreshPerCall ==
    [][\A t \in Threads :
         /\ (ev'.op = "api" /\ ev'.t = t /\ ts.authorized
                /\ Expired1(ts.expires_at))
                => /\ Len(SentOf(ev'.sent, {"refresh"})) = 1
                   /\ Len(ev'.sent) = 1
                   /\ pc'[t] = "refresh_wait"
         /\ (ev'.op = "refresh_response" /\ ev'.t = t /\ call[t].op = "api")
                => /\ SentOf(ev'.sent, {"refresh"}) = <<>>
                   /\ pc'[t] \in {"req_wait", "idle"}
         /\ (ev'.op = "response" /\ ev'.t = t /\ call[t].op = "api")
                => ev'.sent = <<>> /\ pc'[t] = "idle"]_vars

C33_Witness ==
    /\ rev = 1 /\ ev.op = "refresh_response" /\ call[ev.t].op = "api"
    /\ pc[ev.t] = "req_wait"
    /\ Len(SentOf(ev.sent, {"api"})) = 1

\* C34: in revision 1 a fetch_token() call, also the one the constructor
\* starts for an expired cached token, sends at most one authentication
\* request: the step that starts it sends at most one, and the step that
\* handles the answer to it sends none, whatever the answer is.
C34_OneLoginPerFetchToken ==
    [][/\ Len(SentOf(ev'.sent, {"login"})) <= 1
       /\ ev'.op = "fetch_response"
            => SentOf(ev'.sent, {"login"}) = <<>>]_vars

\* C35: in revision 3 every successful token renewal, started by
\* refresh_token() or by a request that finds the token expired, loads the
\* cache once and writes it once (the callback that follows the automatic
\* refresh with the token as argument touches nothing), and afterwards the
\* cache entry of the identity holds the token the session holds.
C35_RenewalWritesCacheOnce ==
    [][\A id \in Sessions :
         (rev = 3 /\ ev'.t = id /\ ev'.refresh = "ok")
            => /\ ev'.loads = 1 /\ ev'.dumps = 1
               /\ sess'[id].email \in DOMAIN cache'.doc
               /\ cache'.doc[sess'[id].email]
                    = CacheRecord3(sess'[id].sso_base_url,
                                   sess'[id].token)]_vars

\* C37: after a construction the SSO base URL of the session is the URL of
\* the cache record of its identity when there is a record with a URL,
\* whatever sso_base_url the constructor was given, and it is the URL the
\* constructor was given (the default when none was passed) otherwise.
C37_CachedUrlOverridesArgument ==
    [][\A id \in Sessions :
         (rev = 3 /\ ev'.op = "ctor" /\ ev'.t = id /\ ev'.raised = "none")
            => LET e == sess'[id].email
                   doc == cache_load(cache)
               IN  sess'[id].sso_base_url =
                     IF e \in DOMAIN doc /\ "url" \in DOMAIN doc[e]
                     THEN doc[e].url ELSE ev'.url]_vars

C37_Witness ==
    /\ rev = 3 /\ ev.op = "ctor" /\ ev.raised = "none"
    /\ ev.url = SSO_BASE_URL
    /\ sess[ev.t].sso_base_url = SSO_REGION_URL
    /\ sess[ev.t].email \in DOMAIN cache.doc
    /\ cache.doc[sess[ev.t].email].url = SSO_REGION_URL

\* C38: a request that api() sends for an endpoint with AUTH false carries
\* no bearer token, and the call that sends it starts no login and no token
\* renewal (it is the only request of its step), whether the session is
\* unauthorized, authorized, or holds an expired token.
UnauthenticatedSent(sent) ==
    SelectSeq(sent, LAMBDA r : r.kind = "api" /\ ~r.auth)

C38_NoBearerWithoutAuth ==
    [][UnauthenticatedSent(ev'.sent) # <<>>
          => /\ \A i \in DOMAIN ev'.sent : ev'.sent[i].bearer = 0
             /\ Len(ev'.sent) = 1
             /\ ev'.login = "none" /\ ev'.refresh = "none"]_vars

\* C36: sync_wake_up() sends WAKE_UP at most once and only for a vehicle
\* that is not online, has returned normally only with the last fetched
\* state online, has raised VehicleError only after the deadline, does not
\* go on sleeping after the deadline, and has ended in one of these two
\* ways whenever it has ended.
WakeSafe ==
    /\ wake.wakes <= 1
    /\ wake.wakes = 1 => wake.was # "online"
    /\ wake.result = "returned" => vehicle.fields["state"] = "online"
    /\ wake.result = "VehicleError" => wake.start_time + wake.timeout < now
    /\ wake.at = "sleep" => now <= wake.start_time + wake.timeout

====
